---- MODULE Spec2Model ----
(***************************************************************************)
(* Model of the aggregation core of iana-data:                             *)
(*   - idempotent persistence (src/utilities/content_changed.py)           *)
(*   - the IP-to-ASN range index (src/parse/iptoasn.py)                    *)
(*   - the TLD build pipeline (src/build/tlds.py)                          *)
(***************************************************************************)
EXTENDS Integers, Sequences, FiniteSets, TLC

VARIABLES
    file,       \* the JSON file at the path given to write_json_if_changed
    last,       \* record of the most recent write_json_if_changed call
    prev,       \* summary of the call before it
    ncalls,     \* number of calls made so far (also the wall clock of mtime)
    table,      \* the ASNRecord list parsed from the iptoasn table
    index,      \* the ASNLookup built from it (asn_lookup of build_tlds_json)
    lk,         \* the most recent ASNLookup.lookup call and its outcome
    ipObj,      \* the result of _ip_to_asn_object, when it made that call
    srcs,       \* what the source readers return (the downloaded inputs)
    clock,      \* the wall clock, in ticks
    metadata,   \* the IPTOASN entry of metadata.json
    run,        \* record of the most recent build_tlds_json run
    prevRun,    \* summary of the run before it
    ein,        \* the arguments of a _build_tld_entry call
    entry,      \* the record that call returned
    entry2,     \* the record a second call with the same arguments returned
    seed,       \* the hash seed of the process (iteration order of str sets)
    hist,       \* what the calls of write_json_if_changed so far have in common
    tld_list,   \* tlds, the list of records _add_idn_mappings works on
    xref,       \* the applications of _add_idn_mappings so far
    pipe,       \* position of a build_tlds_json run taken step by step
    retry       \* one call of make_request_with_retry

pvars == <<file, last, prev, ncalls, hist>>
avars == <<table, index, lk, ipObj>>
bvars == <<srcs, clock, metadata, run, prevRun>>
evars == <<ein, entry, entry2, seed>>
xvars == <<tld_list, xref, pipe>>
rvars == <<retry>>
vars == <<file, last, prev, ncalls, table, index, lk, ipObj,
          srcs, clock, metadata, run, prevRun, ein, entry, entry2, seed,
          hist, tld_list, xref, pipe, retry>>

(***************************************************************************)
(* Bounds                                                                  *)
(***************************************************************************)
MaxCalls == 2    \* calls of write_json_if_changed in one behaviour
MaxCut == 1      \* tokens a failing write may have put in the file
MaxRecords == 2  \* rows of the iptoasn table
MaxTicks == 2    \* how far the wall clock runs
TicksPerSecond == 2  \* clock ticks in one second of the publication stamp
MaxTypes == 3    \* raw agreement types in one row of the agreement table
MaxEntries == 3  \* records in the list _add_idn_mappings works on
MaxPasses == 2   \* applications of _add_idn_mappings to one list
MaxAttempts == 3 \* largest max_attempts argument of make_request_with_retry
MaxNameservers == 2  \* nameservers on one TLD page

(***************************************************************************)
(* JSON values.  A value is a record with a string part, a number part and *)
(* a list part, so that all values are comparable with one another.        *)
(***************************************************************************)
JStr(s) == [s |-> s, n |-> 0, l |-> <<>>]
JNull == [s |-> "null", n |-> 0, l |-> <<>>]

Keys == {"publication", "tlds"}
Vals == {JStr("x"), JStr("y")}

\* A Python dict: pairs in insertion order, keys unique.
Pair(k, v) == [k |-> k, v |-> v]
IsDict(d) == \A i, j \in 1..Len(d) : d[i].k = d[j].k => i = j
Dicts ==
    {d \in UNION {[1..n -> [k : Keys, v : Vals]] : n \in 0..Cardinality(Keys)} :
        IsDict(d)}

\* exclude_fields arguments
ExcludeLists == {<<>>, <<"publication">>}

(***************************************************************************)
(* File text: a sequence of tokens.                                        *)
(***************************************************************************)
Tok(t) == [t |-> t, k |-> "", v |-> JNull]
PairTok(k, v) == [t |-> "pair", k |-> k, v |-> v]
ElemTok(v) == [t |-> "elem", k |-> "", v |-> v]

\* json.dump(data, f, indent=indent, ensure_ascii=False): the members in the
\* dict's insertion order between braces.
JsonDump(data) ==
    <<Tok("{")>> \o [i \in 1..Len(data) |-> PairTok(data[i].k, data[i].v)]
                 \o <<Tok("}")>>

\* What one successful write leaves in the file: the document and "\n".
Written(data) == JsonDump(data) \o <<Tok("nl")>>

\* The text without trailing whitespace.
RECURSIVE RStrip(_)
RStrip(text) ==
    IF text # <<>> /\ text[Len(text)].t = "nl"
    THEN RStrip(SubSeq(text, 1, Len(text) - 1))
    ELSE text

Inner(text) == SubSeq(text, 2, Len(text) - 1)

\* Python dict built by the decoder: a later duplicate member wins.
MapOfPairs(ps) ==
    [k \in {ps[i].k : i \in 1..Len(ps)} |->
        LET i == CHOOSE i \in 1..Len(ps) :
                    /\ ps[i].k = k
                    /\ \A j \in 1..Len(ps) : ps[j].k = k => j <= i
        IN ps[i].v]

EmptyMap == [k \in {} |-> JNull]
ParseFail == [ok |-> FALSE, kind |-> "", map |-> EmptyMap, items |-> <<>>]

\* json.load(f): the value the text decodes to, or a decode failure.
JsonLoad(text) ==
    LET body == RStrip(text) IN
    IF Len(body) >= 2 /\ body[1].t = "{" /\ body[Len(body)].t = "}"
          /\ \A i \in 2..(Len(body) - 1) : body[i].t = "pair"
    THEN [ok |-> TRUE, kind |-> "dict", map |-> MapOfPairs(Inner(body)),
          items |-> <<>>]
    ELSE IF Len(body) >= 2 /\ body[1].t = "[" /\ body[Len(body)].t = "]"
          /\ \A i \in 2..(Len(body) - 1) : body[i].t = "elem"
    THEN [ok |-> TRUE, kind |-> "list", map |-> EmptyMap,
          items |-> [i \in 1..(Len(body) - 2) |-> body[i + 1].v]]
    ELSE IF Len(body) = 1 /\ body[1].t = "elem"
    THEN [ok |-> TRUE, kind |-> "scalar", map |-> EmptyMap,
          items |-> <<body[1].v>>]
    ELSE ParseFail

\* The in-memory dict as a mapping (dict equality ignores insertion order).
AsMap(data) == MapOfPairs(data)

\* Mutant: the pops are left out.
PopAll_NoPop(map, exclude) == map

\* d.pop(field, None) for every field of exclude_fields
PopAll(map, exclude) ==
    [k \in (DOMAIN map) \ {exclude[i] : i \in 1..Len(exclude)} |-> map[k]]

(***************************************************************************)
(* The file system object at filepath.                                     *)
(***************************************************************************)
NoFile == [exists |-> FALSE, text |-> <<>>, mtime |-> 0]
FileOf(text, t) == [exists |-> TRUE, text |-> text, mtime |-> t]

\* with open(filepath, "w") as f: json.dump(...); f.write("\n")
\* w = "ok":       everything is written
\* w = "openfail": open (or mkdir) raises, nothing is touched
\* w = "partial":  open truncated/created the file, the dump raised after
\*                 cut tokens had been written
Min(a, b) == IF a < b THEN a ELSE b

WriteFile(f, data, w, cut, now) ==
    CASE w = "ok" -> FileOf(Written(data), now)
      [] w = "openfail" -> f
      [] w = "partial" ->
            FileOf(SubSeq(Written(data), 1, Min(cut, Len(Written(data)) - 1)), now)

(***************************************************************************)
(* write_json_if_changed                                                   *)
(***************************************************************************)
\* Mutant: the flag tells whether the content differed, whatever became
\* of the write.
Result_ChangedUnlessUnchanged(f, changed, status, rd, wr) ==
    [file |-> f, changed |-> status # "unchanged", status |-> status,
     rd |-> rd, wr |-> wr]

Result(f, changed, status, rd, wr) ==
    [file |-> f, changed |-> changed, status |-> status, rd |-> rd, wr |-> wr]

\* Mutant: the except branch is missing, a failed write is reported written.
TryWrite_NoExcept(f, data, env, now, rd) ==
    Result(WriteFile(f, data, env.w, env.cut, now), TRUE, "written", rd, env.w)

\* The three identical try/except blocks around the write: (True, "written")
\* when the block completes, (False, "error") when anything in it raises.
TryWrite(f, data, env, now, rd) ==
    IF env.w = "ok"
    THEN Result(WriteFile(f, data, env.w, env.cut, now), TRUE, "written", rd, "ok")
    ELSE Result(WriteFile(f, data, env.w, env.cut, now), FALSE, "error", rd, env.w)

\* if not filepath.exists(): new file, write it
WriteNewFile(f, data, env, now) == TryWrite(f, data, env, now, "none")

\* Mutant: a read failure is reported as an error without overwriting.
OnReadFailure_GiveUp(f, data, env, now, rd) ==
    Result(f, FALSE, "error", rd, "none")

\* except Exception while loading the existing file: treat as changed
OnReadFailure(f, data, env, now, rd) == TryWrite(f, data, env, now, rd)

\* Mutant: the excluded fields are popped from the new data only.
ContentEqual_OneSidedPop(data, loaded, exclude) ==
    /\ loaded.kind = "dict"
    /\ PopAll(AsMap(data), exclude) = loaded.map

\* Mutant: only the field names are compared.
ContentEqual_KeysOnly(data, loaded, exclude) ==
    /\ loaded.kind = "dict"
    /\ DOMAIN PopAll(AsMap(data), exclude) = DOMAIN PopAll(loaded.map, exclude)

\* new_data_compare == existing_data_compare after popping exclude_fields
\* from both copies; a dict never equals a list or a scalar.
ContentEqual(data, loaded, exclude) ==
    /\ loaded.kind = "dict"
    /\ PopAll(AsMap(data), exclude) = PopAll(loaded.map, exclude)

\* existing_data_compare.pop(field, None) raises when the loaded value is
\* not a dict (list.pop takes one argument, scalars have no pop); the loop
\* body runs only for a non-empty exclude_fields.
PopRaises(loaded, exclude) == exclude # <<>> /\ loaded.kind # "dict"

CompareAndWrite(f, data, exclude, loaded, env, now) ==
    IF PopRaises(loaded, exclude)
    THEN Result(f, FALSE, "raised", "ok", "none")
    ELSE IF ContentEqual(data, loaded, exclude)
    THEN Result(f, FALSE, "unchanged", "ok", "none")
    ELSE TryWrite(f, data, env, now, "ok")

\* env.r: whether opening/reading the existing file raises an I/O error
WriteJsonIfChanged(f, data, exclude, env, now) ==
    IF ~f.exists
    THEN WriteNewFile(f, data, env, now)
    ELSE IF env.r = "ioerror"
    THEN OnReadFailure(f, data, env, now, "ioerror")
    ELSE IF ~JsonLoad(f.text).ok
    THEN OnReadFailure(f, data, env, now, "corrupt")
    ELSE CompareAndWrite(f, data, exclude, JsonLoad(f.text), env, now)

(***************************************************************************)
(* IP addresses.  An address string is a family marker (whether the string *)
(* contains ":") and its groups of digits; ipaddress.IPv4Address and       *)
(* ipaddress.IPv6Address accept a string of their own syntax with the      *)
(* right number of groups and give its positional value.                   *)
(***************************************************************************)
Digits == {0, 1}
Groups == [1..2 -> Digits]
Addr(colon, digits) == [colon |-> colon, digits |-> digits]
ValidAddrs == {Addr(c, g) : c \in BOOLEAN, g \in Groups}
\* strings with a group missing
BadAddrs == {Addr(c, <<0>>) : c \in BOOLEAN}
AddrStrings == ValidAddrs \cup BadAddrs

RECURSIVE Positional(_)
Positional(digits) ==
    IF digits = <<>> THEN 0
    ELSE Cardinality(Digits) * Positional(SubSeq(digits, 1, Len(digits) - 1))
            + digits[Len(digits)]

\* ":" in ip
HasColon(a) == a.colon

\* ipaddress.IPv4Address(s) / IPv6Address(s) raise AddressValueError
IPv4Raises(a) == a.colon \/ a.digits \notin Groups
IPv6Raises(a) == ~a.colon \/ a.digits \notin Groups
\* int(ipaddress.IPv4Address(s)), int(ipaddress.IPv6Address(s))
IPv4Int(a) == Positional(a.digits)
IPv6Int(a) == Positional(a.digits)

(***************************************************************************)
(* ASNRecord and ASNLookup                                                 *)
(***************************************************************************)
ASNRecord(s, e, asn, country, org) ==
    [start_ip |-> s, end_ip |-> e, asn |-> asn, country |-> country, org |-> org]

\* Who holds a range: routed IPv4 space, IPv4 space marked "Not routed"
\* (asn 0), routed IPv6 space.
OwnersV4 ==
    {[asn |-> 13335, country |-> "US", org |-> "CLOUDFLARENET"],
     [asn |-> 0, country |-> "None", org |-> "Not routed"]}
OwnersV6 == {[asn |-> 15169, country |-> "US", org |-> "GOOGLE"]}
OwnersOf(a) == IF a.colon THEN OwnersV6 ELSE OwnersV4

GoodRow(r) ==
    /\ r.start_ip \in ValidAddrs /\ r.end_ip \in ValidAddrs
    /\ r.start_ip.colon = r.end_ip.colon
    /\ Positional(r.start_ip.digits) <= Positional(r.end_ip.digits)

\* Rows of the table: ranges of one family with start <= end, and rows with
\* a malformed start or end address.
TableRows ==
    {r \in {ASNRecord(s, e, o.asn, o.country, o.org) :
                s \in ValidAddrs, e \in ValidAddrs, o \in OwnersV4 \cup OwnersV6} :
        GoodRow(r) /\ r.asn \in {o.asn : o \in OwnersOf(r.start_ip)}}
    \cup {ASNRecord(b, Addr(b.colon, <<0, 0>>), 13335, "US", "CLOUDFLARENET") :
                b \in BadAddrs}
    \cup {ASNRecord(Addr(b.colon, <<0, 0>>), b, 13335, "US", "CLOUDFLARENET") :
                b \in BadAddrs}

Tables == UNION {[1..n -> TableRows] : n \in 0..MaxRecords}

\* [r for r in records if pred(r)], order kept
RECURSIVE Filter(_, _)
Filter(recs, colon) ==
    IF recs = <<>> THEN <<>>
    ELSE IF HasColon(recs[1].start_ip) = colon
         THEN <<recs[1]>> \o Filter(Tail(recs), colon)
         ELSE Filter(Tail(recs), colon)

\* key of the sort
StartInt(r) == IF HasColon(r.start_ip) THEN IPv6Int(r.start_ip) ELSE IPv4Int(r.start_ip)
StartRaises(r) ==
    IF HasColon(r.start_ip) THEN IPv6Raises(r.start_ip) ELSE IPv4Raises(r.start_ip)

\* sorted(records, key=...): stable, rows with equal keys keep their order
RECURSIVE InsertSorted(_, _)
InsertSorted(sorted, r) ==
    IF sorted = <<>> THEN <<r>>
    ELSE IF StartInt(sorted[Len(sorted)]) <= StartInt(r)
         THEN Append(sorted, r)
         ELSE Append(InsertSorted(SubSeq(sorted, 1, Len(sorted) - 1), r),
                     sorted[Len(sorted)])

RECURSIVE Sorted(_)
Sorted(recs) ==
    IF recs = <<>> THEN <<>>
    ELSE InsertSorted(Sorted(SubSeq(recs, 1, Len(recs) - 1)), recs[Len(recs)])

NoIndex(state) ==
    [state |-> state, ipv4_records |-> <<>>, ipv6_records |-> <<>>,
     ipv4_starts |-> <<>>, ipv6_starts |-> <<>>]

\* ASNLookup.__init__(records): a malformed start address makes the key
\* function raise AddressValueError out of the constructor.
ASNLookupInit(records) ==
    IF \E i \in 1..Len(records) : StartRaises(records[i])
    THEN NoIndex("failed")
    ELSE LET v4 == Sorted(Filter(records, FALSE))
             v6 == Sorted(Filter(records, TRUE))
         IN [state |-> "built",
             ipv4_records |-> v4, ipv6_records |-> v6,
             ipv4_starts |-> [i \in 1..Len(v4) |-> IPv4Int(v4[i].start_ip)],
             ipv6_starts |-> [i \in 1..Len(v6) |-> IPv6Int(v6[i].start_ip)]]

\* Mutant: bisect_left in place of bisect_right.
RECURSIVE BisectLeft(_, _, _, _)
BisectLeft(a, x, lo, hi) ==
    IF lo < hi
    THEN LET mid == (lo + hi) \div 2 IN
         IF a[mid + 1] < x THEN BisectLeft(a, x, mid + 1, hi)
         ELSE BisectLeft(a, x, lo, mid)
    ELSE lo

\* bisect.bisect_right(a, x) with lo = 0, hi = len(a), on 0-based positions
RECURSIVE BisectRight(_, _, _, _)
BisectRight(a, x, lo, hi) ==
    IF lo < hi
    THEN LET mid == (lo + hi) \div 2 IN
         IF x < a[mid + 1] THEN BisectRight(a, x, lo, mid)
         ELSE BisectRight(a, x, mid + 1, hi)
    ELSE lo

NoRecord == ASNRecord(Addr(FALSE, <<>>), Addr(FALSE, <<>>), 0, "", "")
Found(r) == [status |-> "ok", found |-> TRUE, rec |-> r]
NotFound == [status |-> "ok", found |-> FALSE, rec |-> NoRecord]
Raised == [status |-> "raised", found |-> FALSE, rec |-> NoRecord]

\* ASNLookup._lookup_ipv4
LookupIPv4(idx, ip) ==
    IF IPv4Raises(ip) THEN NotFound
    ELSE LET ip_int == IPv4Int(ip)
             i == BisectRight(idx.ipv4_starts, ip_int, 0, Len(idx.ipv4_starts)) - 1
         IN IF i < 0 THEN NotFound
            ELSE LET record == idx.ipv4_records[i + 1] IN
                 IF IPv4Raises(record.end_ip) THEN Raised
                 ELSE IF ip_int <= IPv4Int(record.end_ip) THEN Found(record)
                 ELSE NotFound

\* ASNLookup._lookup_ipv6
LookupIPv6(idx, ip) ==
    IF IPv6Raises(ip) THEN NotFound
    ELSE LET ip_int == IPv6Int(ip)
             i == BisectRight(idx.ipv6_starts, ip_int, 0, Len(idx.ipv6_starts)) - 1
         IN IF i < 0 THEN NotFound
            ELSE LET record == idx.ipv6_records[i + 1] IN
                 IF IPv6Raises(record.end_ip) THEN Raised
                 ELSE IF ip_int <= IPv6Int(record.end_ip) THEN Found(record)
                 ELSE NotFound

\* ASNLookup.lookup
Lookup(idx, ip) ==
    IF HasColon(ip) THEN LookupIPv6(idx, ip) ELSE LookupIPv4(idx, ip)

(***************************************************************************)
(* _ip_to_asn_object                                                       *)
(***************************************************************************)
IPObject(ip, asn, as_org, as_country) ==
    [status |-> "ok", ip |-> ip, asn |-> asn, as_org |-> as_org,
     as_country |-> as_country]
IPObjectRaised(ip) ==
    [status |-> "raised", ip |-> ip, asn |-> 0, as_org |-> "", as_country |-> ""]
NoIPObject ==
    [status |-> "none", ip |-> Addr(FALSE, <<>>), asn |-> 0, as_org |-> "",
     as_country |-> ""]

\* Mutant: a record with asn 0 is treated as a miss.
IpToAsnObject_ZeroIsMiss(ip, idx) ==
    IF idx.state # "built"
    THEN IPObject(ip, 0, "Unknown", "None")
    ELSE LET record == Lookup(idx, ip) IN
         IF record.status = "raised" THEN IPObjectRaised(ip)
         ELSE IF ~record.found \/ record.rec.asn = 0
         THEN IPObject(ip, 0, "Unknown", "None")
         ELSE IPObject(ip, record.rec.asn, record.rec.org, record.rec.country)

\* asn_lookup is None unless the index was built
IpToAsnObject(ip, idx) ==
    IF idx.state # "built"
    THEN IPObject(ip, 0, "Unknown", "None")
    ELSE LET record == Lookup(idx, ip) IN
         IF record.status = "raised" THEN IPObjectRaised(ip)
         ELSE IF ~record.found THEN IPObject(ip, 0, "Unknown", "None")
         ELSE IPObject(ip, record.rec.asn, record.rec.org, record.rec.country)

(***************************************************************************)
(* Range index state machine: the table is loaded, the index built, and    *)
(* addresses are looked up and enriched.                                   *)
(***************************************************************************)
NoLookup == [ip |-> Addr(FALSE, <<>>), status |-> "none", found |-> FALSE,
             rec |-> NoRecord]

ASNIdle ==
    /\ table = <<>>
    /\ index = NoIndex("init")
    /\ lk = NoLookup
    /\ ipObj = NoIPObject

\* asn_lookup = ASNLookup(records) inside try/except: a failure leaves
\* asn_lookup None
LoadIptoasn ==
    /\ index.state = "init"
    /\ index' = ASNLookupInit(table)
    /\ UNCHANGED <<table, lk, ipObj>>

\* iptoasn_path does not exist: asn_lookup stays None
NoIptoasnData ==
    /\ index.state = "init"
    /\ table = <<>>
    /\ index' = NoIndex("absent")
    /\ UNCHANGED <<table, lk, ipObj>>

LookupRecord(ip, r) ==
    [ip |-> ip, status |-> r.status, found |-> r.found, rec |-> r.rec]

\* a direct call of lookup
LookupCall(ip) ==
    /\ index.state = "built"
    /\ lk' = LookupRecord(ip, Lookup(index, ip))
    /\ ipObj' = NoIPObject
    /\ UNCHANGED <<table, index>>

\* a call of _ip_to_asn_object, with the lookup it makes
IpToAsnObjectCall(ip) ==
    /\ index.state # "init"
    /\ ipObj' = IpToAsnObject(ip, index)
    /\ lk' = IF index.state = "built" THEN LookupRecord(ip, Lookup(index, ip))
             ELSE NoLookup
    /\ UNCHANGED <<table, index>>

(***************************************************************************)
(* Strings of the record builder: a label is a sequence of characters.     *)
(***************************************************************************)
Dot == "."
XN == <<"x", "n">>
ACE == <<"x", "n", "-", "-">>

StartsWith(str, prefix) ==
    Len(str) >= Len(prefix) /\ SubSeq(str, 1, Len(prefix)) = prefix

\* s.lstrip(".")
RECURSIVE LStripDots(_)
LStripDots(str) ==
    IF str # <<>> /\ str[1] = Dot THEN LStripDots(Tail(str)) ELSE str

\* str.lower() and str.upper() on the characters in use
LowerChar(c) ==
    CASE c = "T" -> "t" [] c = "W" -> "w" [] c = "U" -> "u" [] c = "K" -> "k"
      [] c = "X" -> "x" [] c = "N" -> "n" [] OTHER -> c
UpperChar(c) ==
    CASE c = "t" -> "T" [] c = "w" -> "W" [] c = "u" -> "U" [] c = "k" -> "K"
      [] c = "x" -> "X" [] c = "n" -> "N" [] c = "c" -> "C" [] c = "o" -> "O"
      [] c = "m" -> "M" [] OTHER -> c
Lower(str) == [i \in 1..Len(str) |-> LowerChar(str[i])]
Upper(str) == [i \in 1..Len(str) |-> UpperChar(str[i])]

\* sorted(list of strings): code point order, a prefix before its extensions
CodePoint(c) ==
    CASE c = "-" -> 45 [] c = "." -> 46
      [] c = "K" -> 75 [] c = "N" -> 78 [] c = "T" -> 84 [] c = "U" -> 85
      [] c = "W" -> 87 [] c = "X" -> 88
      [] c = "a" -> 97 [] c = "b" -> 98 [] c = "c" -> 99 [] c = "k" -> 107
      [] c = "m" -> 109 [] c = "n" -> 110 [] c = "o" -> 111 [] c = "t" -> 116
      [] c = "u" -> 117 [] c = "w" -> 119 [] c = "x" -> 120
      [] OTHER -> 0

RECURSIVE StrLess(_, _)
StrLess(a, b) ==
    IF b = <<>> THEN FALSE
    ELSE IF a = <<>> THEN TRUE
    ELSE IF a[1] # b[1] THEN CodePoint(a[1]) < CodePoint(b[1])
    ELSE StrLess(Tail(a), Tail(b))

RECURSIVE InsertStr(_, _)
InsertStr(sorted, x) ==
    IF sorted = <<>> THEN <<x>>
    ELSE IF StrLess(x, sorted[Len(sorted)])
         THEN Append(InsertStr(SubSeq(sorted, 1, Len(sorted) - 1), x),
                     sorted[Len(sorted)])
         ELSE Append(sorted, x)

RECURSIVE SortedStrs(_)
SortedStrs(list) ==
    IF list = <<>> THEN <<>>
    ELSE InsertStr(SortedStrs(SubSeq(list, 1, Len(list) - 1)), list[Len(list)])

\* the strings of a set, smallest first or largest first
RECURSIVE SetInOrder(_, _)
SetInOrder(S, up) ==
    IF S = {} THEN <<>>
    ELSE LET m == CHOOSE x \in S :
                    \A y \in S : y = x \/ (IF up THEN StrLess(x, y) ELSE StrLess(y, x))
         IN <<m>> \o SetInOrder(S \ {m}, up)

\* Mutant: list(a set of strings), in the order the process's hash seed gives.
SortedSet_IterationOrder(S) == SetInOrder(S, seed = 0)

\* sorted(a set of strings)
RECURSIVE SortedSet(_)
SortedSet(S) ==
    IF S = {} THEN <<>>
    ELSE LET m == CHOOSE x \in S : \A y \in S : y = x \/ StrLess(x, y)
         IN <<m>> \o SortedSet(S \ {m})

(***************************************************************************)
(* Tables the record builder reads                                         *)
(***************************************************************************)
\* derive_type_from_iana_tag: "country-code" is a ccTLD, every other tag a
\* gTLD
DeriveTypeFromIanaTag(iana_tag) ==
    IF iana_tag = "country-code" THEN "cctld" ELSE "gtld"

\* config.CCTLD_OVERRIDES, the entries for the labels in use
CCTLD_OVERRIDES == [k \in {<<"u", "k">>} |-> "United Kingdom"]

\* pycountry.countries, by alpha_2 code
ISOCountries == [k \in {<<"T", "W">>} |-> "Taiwan, Province of China"]

\* get_country_name: "" stands for None
GetCountryName(cctld) ==
    IF Lower(cctld) \in DOMAIN CCTLD_OVERRIDES THEN CCTLD_OVERRIDES[Lower(cctld)]
    ELSE IF Upper(cctld) \in DOMAIN ISOCountries THEN ISOCountries[Upper(cctld)]
    ELSE ""

\* is_cctld
IsCctld(tld) == Len(tld) = 2 /\ ~StartsWith(Lower(tld), XN)

\* config.REGISTRY_AGREEMENT_TYPE_MAPPING
REGISTRY_AGREEMENT_TYPE_MAPPING ==
    [k \in {"Base", "Brand (Spec 13)", "Community (Spec 12)", "Sponsored",
            "Non-Sponsored"} |->
        CASE k = "Base" -> "base"
          [] k = "Brand (Spec 13)" -> "brand"
          [] k = "Community (Spec 12)" -> "community"
          [] k = "Sponsored" -> "sponsored"
          [] k = "Non-Sponsored" -> "non_sponsored"]

\* Mutant: the normalized types come out in reverse order.
RECURSIVE GetNormalizedAgreementTypes_Reversed(_)
GetNormalizedAgreementTypes_Reversed(agreement_types) ==
    IF agreement_types = <<>> THEN <<>>
    ELSE IF agreement_types[1] \in DOMAIN REGISTRY_AGREEMENT_TYPE_MAPPING
         THEN GetNormalizedAgreementTypes_Reversed(Tail(agreement_types))
                \o <<REGISTRY_AGREEMENT_TYPE_MAPPING[agreement_types[1]]>>
         ELSE GetNormalizedAgreementTypes_Reversed(Tail(agreement_types))

\* get_normalized_agreement_types
RECURSIVE GetNormalizedAgreementTypes(_)
GetNormalizedAgreementTypes(agreement_types) ==
    IF agreement_types = <<>> THEN <<>>
    ELSE IF agreement_types[1] \in DOMAIN REGISTRY_AGREEMENT_TYPE_MAPPING
         THEN <<REGISTRY_AGREEMENT_TYPE_MAPPING[agreement_types[1]]>>
                \o GetNormalizedAgreementTypes(Tail(agreement_types))
         ELSE GetNormalizedAgreementTypes(Tail(agreement_types))

\* tld.encode("ascii").decode("idna"): the Unicode form of the labels that
\* decode; every other ACE label makes the codec raise
IdnaDecoded == [k \in {ACE \o <<"k">>} |-> "U+53F0 U+7063"]

(***************************************************************************)
(* _enrich_nameservers_with_asn                                            *)
(***************************************************************************)
\* the dict _ip_to_asn_object returns
IpDict(o) == [ip |-> o.ip, asn |-> o.asn, as_org |-> o.as_org,
              as_country |-> o.as_country]

EnrichedIps(ips, idx) == [i \in 1..Len(ips) |-> IpDict(IpToAsnObject(ips[i], idx))]

EnrichNameservers(nameservers, idx) ==
    [i \in 1..Len(nameservers) |->
        [hostname |-> nameservers[i].hostname,
         ipv4 |-> EnrichedIps(nameservers[i].ipv4, idx),
         ipv6 |-> EnrichedIps(nameservers[i].ipv6, idx)]]

\* a lookup inside the enrichment raises
EnrichRaises(nameservers, idx) ==
    \E i \in 1..Len(nameservers) :
        \E ip \in {nameservers[i].ipv4[j] : j \in 1..Len(nameservers[i].ipv4)}
                \cup {nameservers[i].ipv6[j] : j \in 1..Len(nameservers[i].ipv6)} :
            IpToAsnObject(ip, idx).status = "raised"

\* Mutant: only the IPv4 addresses are looked at.
AsOrgAliasesFound_Ipv4Only(nameservers, idx, as_org_aliases) ==
    LET enriched == EnrichNameservers(nameservers, idx)
        orgs == UNION {{enriched[i].ipv4[j].as_org : j \in 1..Len(enriched[i].ipv4)} :
                       i \in 1..Len(enriched)}
    IN {as_org_aliases[o] : o \in orgs \cap DOMAIN as_org_aliases}

\* as_org_aliases_found after the call
AsOrgAliasesFound(nameservers, idx, as_org_aliases) ==
    LET enriched == EnrichNameservers(nameservers, idx)
        orgs == UNION {{enriched[i].ipv4[j].as_org : j \in 1..Len(enriched[i].ipv4)}
                        \cup {enriched[i].ipv6[j].as_org : j \in 1..Len(enriched[i].ipv6)} :
                       i \in 1..Len(enriched)}
    IN {as_org_aliases[o] : o \in orgs \cap DOMAIN as_org_aliases}

(***************************************************************************)
(* _build_tld_entry.  A dict with optional keys is a record with the set   *)
(* `has` of the keys that are present.                                     *)
(***************************************************************************)
NoOrgs == [has |-> {}, tld_manager |-> "", admin |-> "", tech |-> ""]
NoAnnotations ==
    [has |-> {}, tld_manager_alias |-> "", rdap_source |-> "",
     country_name_iso |-> "", registry_agreement_types |-> <<>>,
     as_org_aliases |-> <<>>]

\* page_data of a TLD without a parsed page: {}
NoPage ==
    [has |-> {}, tld_iso |-> <<>>, orgs |-> NoOrgs, nameservers |-> <<>>,
     registry_url |-> "", whois_server |-> "", rdap_server |-> "",
     tld_created |-> "", tld_updated |-> ""]

With(present, key) == IF present THEN {key} ELSE {}

\* Mutant: admin and tech are kept only next to a manager.
BuildOrgs_NeedsManager(tld_manager, page_data) ==
    LET pageOrgs == IF "orgs" \in page_data.has /\ tld_manager # "Not assigned"
                    THEN page_data.orgs ELSE NoOrgs IN
    [has |-> With(tld_manager # "Not assigned", "tld_manager")
                \cup With("admin" \in pageOrgs.has, "admin")
                \cup With("tech" \in pageOrgs.has, "tech"),
     tld_manager |-> IF tld_manager # "Not assigned" THEN tld_manager ELSE "",
     admin |-> IF "admin" \in pageOrgs.has THEN pageOrgs.admin ELSE "",
     tech |-> IF "tech" \in pageOrgs.has THEN pageOrgs.tech ELSE ""]

BuildOrgs(tld_manager, page_data) ==
    LET pageOrgs == IF "orgs" \in page_data.has THEN page_data.orgs ELSE NoOrgs IN
    [has |-> With(tld_manager # "Not assigned", "tld_manager")
                \cup With("admin" \in pageOrgs.has, "admin")
                \cup With("tech" \in pageOrgs.has, "tech"),
     tld_manager |-> IF tld_manager # "Not assigned" THEN tld_manager ELSE "",
     admin |-> IF "admin" \in pageOrgs.has THEN pageOrgs.admin ELSE "",
     tech |-> IF "tech" \in pageOrgs.has THEN pageOrgs.tech ELSE ""]

\* Mutant: the bootstrap map is consulted before the page data.
RdapChoice_BootstrapFirst(tld, rdap_lookup, supplemental_rdap, page_data) ==
    IF tld \in DOMAIN rdap_lookup
    THEN [rdap_server |-> rdap_lookup[tld], rdap_source |-> "IANA"]
    ELSE IF "rdap_server" \in page_data.has
    THEN [rdap_server |-> page_data.rdap_server, rdap_source |-> "IANA"]
    ELSE IF tld \in DOMAIN supplemental_rdap
    THEN [rdap_server |-> supplemental_rdap[tld].rdap_server,
          rdap_source |-> "supplemental"]
    ELSE [rdap_server |-> "", rdap_source |-> ""]

\* Mutant: a provenance tag is set even when no source has a URL.
RdapChoice_TagWithoutUrl(tld, rdap_lookup, supplemental_rdap, page_data) ==
    IF "rdap_server" \in page_data.has
    THEN [rdap_server |-> page_data.rdap_server, rdap_source |-> "IANA"]
    ELSE IF tld \in DOMAIN rdap_lookup
    THEN [rdap_server |-> rdap_lookup[tld], rdap_source |-> "IANA"]
    ELSE IF tld \in DOMAIN supplemental_rdap
    THEN [rdap_server |-> supplemental_rdap[tld].rdap_server,
          rdap_source |-> "supplemental"]
    ELSE [rdap_server |-> "", rdap_source |-> "IANA"]

\* rdap_server and rdap_source before the truthiness tests
RdapChoice(tld, rdap_lookup, supplemental_rdap, page_data) ==
    IF "rdap_server" \in page_data.has
    THEN [rdap_server |-> page_data.rdap_server, rdap_source |-> "IANA"]
    ELSE IF tld \in DOMAIN rdap_lookup
    THEN [rdap_server |-> rdap_lookup[tld], rdap_source |-> "IANA"]
    ELSE IF tld \in DOMAIN supplemental_rdap
    THEN [rdap_server |-> supplemental_rdap[tld].rdap_server,
          rdap_source |-> "supplemental"]
    ELSE [rdap_server |-> "", rdap_source |-> ""]

CountryNameFor(tld, page_data) ==
    IF IsCctld(tld) THEN GetCountryName(tld)
    ELSE IF "tld_iso" \in page_data.has THEN GetCountryName(page_data.tld_iso)
    ELSE ""

BuildAnnotations(tld, tld_manager, page_data, rdap, registry_agreements, tld_manager_aliases, aliases_found) ==
    LET alias == IF tld_manager # "Not assigned"
                        /\ tld_manager \in DOMAIN tld_manager_aliases
                 THEN tld_manager_aliases[tld_manager] ELSE ""
        country == CountryNameFor(tld, page_data)
        types == IF tld \in DOMAIN registry_agreements
                 THEN GetNormalizedAgreementTypes(registry_agreements[tld].agreement_types)
                 ELSE <<>>
    IN [has |-> With(alias # "", "tld_manager_alias")
                    \cup With(rdap.rdap_source # "", "rdap_source")
                    \cup With(country # "", "country_name_iso")
                    \cup With(types # <<>>, "registry_agreement_types")
                    \cup With(aliases_found # {}, "as_org_aliases"),
        tld_manager_alias |-> alias,
        rdap_source |-> rdap.rdap_source,
        country_name_iso |-> country,
        registry_agreement_types |-> types,
        as_org_aliases |-> SortedSet(aliases_found)]

BuildTldEntry(root_zone_entry, rdap_lookup, supplemental_rdap, page_data, idn_script_mapping, registry_agreements, tld_manager_aliases, as_org_aliases, asn_lookup) ==
    LET tld == LStripDots(root_zone_entry.domain)
        tld_manager == root_zone_entry.manager
        iana_tag == root_zone_entry.type
        decodes == StartsWith(tld, ACE) /\ tld \in DOMAIN IdnaDecoded
        orgs == BuildOrgs(tld_manager, page_data)
        hasNs == "nameservers" \in page_data.has
        found == IF hasNs
                 THEN AsOrgAliasesFound(page_data.nameservers, asn_lookup, as_org_aliases)
                 ELSE {}
        rdap == RdapChoice(tld, rdap_lookup, supplemental_rdap, page_data)
        annotations == BuildAnnotations(tld, tld_manager, page_data, rdap,
                            registry_agreements, tld_manager_aliases, found)
    IN [has |-> {"tld", "delegated", "iana_tag", "type"}
                    \cup With(decodes, "tld_unicode")
                    \cup With(tld \in DOMAIN idn_script_mapping, "tld_script")
                    \cup With("tld_iso" \in page_data.has, "tld_iso")
                    \cup With(orgs.has # {}, "orgs")
                    \cup With(hasNs, "nameservers")
                    \cup With("registry_url" \in page_data.has, "registry_url")
                    \cup With("whois_server" \in page_data.has, "whois_server")
                    \cup With(rdap.rdap_server # "", "rdap_server")
                    \cup With("tld_created" \in page_data.has, "tld_created")
                    \cup With("tld_updated" \in page_data.has, "tld_updated")
                    \cup With(annotations.has # {}, "annotations"),
        tld |-> tld,
        tld_unicode |-> IF decodes THEN IdnaDecoded[tld] ELSE "",
        tld_script |-> IF tld \in DOMAIN idn_script_mapping
                       THEN idn_script_mapping[tld] ELSE "",
        tld_iso |-> IF "tld_iso" \in page_data.has THEN page_data.tld_iso ELSE <<>>,
        delegated |-> tld_manager # "Not assigned",
        iana_tag |-> iana_tag,
        type |-> DeriveTypeFromIanaTag(iana_tag),
        orgs |-> orgs,
        nameservers |-> IF hasNs
                        THEN EnrichNameservers(page_data.nameservers, asn_lookup)
                        ELSE <<>>,
        registry_url |-> IF "registry_url" \in page_data.has
                         THEN page_data.registry_url ELSE "",
        whois_server |-> IF "whois_server" \in page_data.has
                         THEN page_data.whois_server ELSE "",
        rdap_server |-> rdap.rdap_server,
        tld_created |-> IF "tld_created" \in page_data.has
                        THEN page_data.tld_created ELSE "",
        tld_updated |-> IF "tld_updated" \in page_data.has
                        THEN <<page_data.tld_updated>> ELSE <<>>,
        annotations |-> annotations,
        idn |-> <<>>]

\* the nameserver enrichment of the entry raises
BuildTldEntryRaises(page_data, asn_lookup) ==
    "nameservers" \in page_data.has /\ EnrichRaises(page_data.nameservers, asn_lookup)

(***************************************************************************)
(* _add_idn_mappings                                                       *)
(***************************************************************************)
\* idn_mappings[ascii_tld]: the labels of the entries with that tld_iso, in
\* list order
RECURSIVE IdnListFor(_, _)
IdnListFor(tlds, ascii_tld) ==
    IF tlds = <<>> THEN <<>>
    ELSE IF "tld_iso" \in tlds[1].has /\ tlds[1].tld_iso = ascii_tld
         THEN <<tlds[1].tld>> \o IdnListFor(Tail(tlds), ascii_tld)
         ELSE IdnListFor(Tail(tlds), ascii_tld)

\* tld_lookup[label]: the last entry with that label
TldLookupIndex(tlds, label) ==
    CHOOSE i \in 1..Len(tlds) :
        /\ tlds[i].tld = label
        /\ \A j \in 1..Len(tlds) : tlds[j].tld = label => j <= i

\* Mutant: the idn list is attached in list order, without sorted().
AddIdnMappings_Unsorted(tlds) ==
    [i \in 1..Len(tlds) |->
        IF IdnListFor(tlds, tlds[i].tld) # <<>> /\ TldLookupIndex(tlds, tlds[i].tld) = i
        THEN [tlds[i] EXCEPT !.has = @ \cup {"idn"},
                             !.idn = IdnListFor(tlds, tlds[i].tld)]
        ELSE tlds[i]]

\* Mutant: the labels are added to the idn list the entry already has.
AddIdnMappings_Extending(tlds) ==
    [i \in 1..Len(tlds) |->
        IF IdnListFor(tlds, tlds[i].tld) # <<>> /\ TldLookupIndex(tlds, tlds[i].tld) = i
        THEN [tlds[i] EXCEPT !.has = @ \cup {"idn"},
                             !.idn = SortedStrs(@ \o IdnListFor(tlds, tlds[i].tld))]
        ELSE tlds[i]]

AddIdnMappings(tlds) ==
    [i \in 1..Len(tlds) |->
        IF IdnListFor(tlds, tlds[i].tld) # <<>> /\ TldLookupIndex(tlds, tlds[i].tld) = i
        THEN [tlds[i] EXCEPT !.has = @ \cup {"idn"},
                             !.idn = SortedStrs(IdnListFor(tlds, tlds[i].tld))]
        ELSE tlds[i]]

(***************************************************************************)
(* Source snapshots: what the readers return for the files on disk.        *)
(***************************************************************************)
COM == <<"c", "o", "m">>
TW == <<"t", "w">>
UK == <<"u", "k">>
IDN_TW == ACE \o <<"k">>

RootEntry(label, type, manager) ==
    [domain |-> <<Dot>> \o label, type |-> type, manager |-> manager]

NoMap == [k \in {} |-> ""]
Nameserver(hostname, ipv4, ipv6) ==
    [hostname |-> hostname, ipv4 |-> ipv4, ipv6 |-> ipv6]

ComPage ==
    [NoPage EXCEPT
        !.has = {"orgs", "nameservers", "whois_server", "rdap_server",
                 "tld_created", "tld_updated"},
        !.orgs = [has |-> {"tld_manager", "admin", "tech"},
                  tld_manager |-> "VeriSign Global Registry Services",
                  admin |-> "VeriSign", tech |-> "VeriSign"],
        !.nameservers =
            <<Nameserver("a.gtld-servers.net", <<Addr(FALSE, <<0, 1>>)>>,
                         <<Addr(TRUE, <<1, 0>>)>>),
              Nameserver("b.gtld-servers.net", <<Addr(FALSE, <<1, 1>>)>>, <<>>)>>,
        !.whois_server = "whois.verisign-grs.com",
        !.rdap_server = "https://rdap.verisign.com/com/v1/",
        !.tld_created = "1985-01-01",
        !.tld_updated = "2023-12-07"]

IdnTwPage ==
    [NoPage EXCEPT
        !.has = {"tld_iso", "orgs", "nameservers"},
        !.tld_iso = TW,
        !.orgs = [has |-> {"tld_manager"}, tld_manager |-> "TWNIC",
                  admin |-> "", tech |-> ""],
        !.nameservers =
            <<Nameserver("a.dns.tw", <<Addr(FALSE, <<1, 0>>)>>, <<>>)>>]

SampleTable ==
    <<ASNRecord(Addr(FALSE, <<0, 0>>), Addr(FALSE, <<0, 1>>), 13335, "US",
                "CLOUDFLARENET"),
      ASNRecord(Addr(FALSE, <<1, 0>>), Addr(FALSE, <<1, 0>>), 0, "None",
                "Not routed"),
      ASNRecord(Addr(TRUE, <<1, 0>>), Addr(TRUE, <<1, 1>>), 15169, "US",
                "GOOGLE")>>

\* a table whose row has an end address that does not parse
BrokenTable ==
    <<ASNRecord(Addr(FALSE, <<0, 0>>), Addr(FALSE, <<0>>), 13335, "US",
                "CLOUDFLARENET")>>

\* all sources downloaded
FullSources ==
    [root_zone_entries |->
        <<RootEntry(COM, "generic", "VeriSign Global Registry Services"),
          RootEntry(TW, "country-code", "TWNIC"),
          RootEntry(IDN_TW, "country-code", "TWNIC"),
          RootEntry(UK, "country-code", "Not assigned")>>,
     rdap_lookup |-> [k \in {COM} |-> "https://rdap.verisign.com/com/v1/"],
     supplemental_rdap |->
        [k \in {TW} |-> [rdap_server |-> "https://ccrdap.twnic.tw/tw/"]],
     registry_agreements |->
        [k \in {COM} |-> [agreement_types |-> <<"Base", "Unknown Type">>]],
     tld_manager_aliases |-> [k \in {"TWNIC"} |-> "TWNIC alias"],
     as_org_aliases |-> [k \in {"CLOUDFLARENET", "GOOGLE"} |->
                            IF k = "GOOGLE" THEN <<"b">> ELSE <<"a">>],
     idn_script_mapping |-> [k \in {IDN_TW} |-> "Han-CJK"],
     pages |-> [k \in {COM, IDN_TW} |-> IF k = COM THEN ComPage ELSE IdnTwPage],
     iptoasn |-> [exists |-> TRUE, records |-> SampleTable]]

\* the root zone list changed upstream: .uk is delegated
UpdatedSources ==
    [FullSources EXCEPT
        !.root_zone_entries =
            <<RootEntry(COM, "generic", "VeriSign Global Registry Services"),
              RootEntry(TW, "country-code", "TWNIC"),
              RootEntry(IDN_TW, "country-code", "TWNIC"),
              RootEntry(UK, "country-code", "Nominet UK")>>]

\* only the root zone list is there
BareSources ==
    [FullSources EXCEPT
        !.rdap_lookup = NoMap,
        !.supplemental_rdap = [k \in {} |-> [rdap_server |-> ""]],
        !.registry_agreements = [k \in {} |-> [agreement_types |-> <<>>]],
        !.tld_manager_aliases = NoMap,
        !.as_org_aliases = [k \in {} |-> <<>>],
        !.idn_script_mapping = NoMap,
        !.pages = [k \in {} |-> NoPage],
        !.iptoasn = [exists |-> FALSE, records |-> <<>>]]

\* srcs names the snapshot the readers currently return
SourceSnapshots == {"full", "updated", "bare"}
Snapshot(name) ==
    CASE name = "full" -> FullSources
      [] name = "updated" -> UpdatedSources
      [] name = "bare" -> BareSources

(***************************************************************************)
(* Calls of _build_tld_entry: the arguments are what the source readers    *)
(* can return for one root zone entry.                                     *)
(***************************************************************************)
Labels == {COM, TW, UK, IDN_TW}
IanaTags == {"country-code", "generic"}
Managers == {"Not assigned", "TWNIC"}

\* the URLs of the three sources; the readers never return an empty URL
\* (tld_html.py line 140, rdap_json.py line 34, supplemental_cctld_rdap.py
\* line 43)
PageUrl == "https://rdap.page.example/"
BootstrapUrl == "https://rdap.bootstrap.example/"
SupplementalUrl == "https://rdap.supplemental.example/"

\* parse_rdap_json and parse_supplemental_cctld_rdap
RdapLookups == {[k \in D |-> BootstrapUrl] : D \in {{}, {COM, IDN_TW}}}
SupplementalMaps ==
    {[k \in D |-> [rdap_server |-> SupplementalUrl]] : D \in {{}, {COM, TW}}}

\* idn-script-mapping.json as loaded: any JSON object of label -> script
ScriptMappings == {[k \in D |-> "Han-CJK"] : D \in {{}, {IDN_TW, COM}}}

\* parse_registry_agreement_csv: the raw types of a row, in CSV order
RawTypes == {"Base", "Brand (Spec 13)", "Unknown Type"}
RawTypeLists == UNION {[1..n -> RawTypes] : n \in 0..MaxTypes}
AgreementMaps ==
    {[k \in {} |-> [agreement_types |-> <<>>]]}
        \cup {[k \in {COM, UK} |-> [agreement_types |-> l]] : l \in RawTypeLists}

\* parse_tld_page: the keys of page_data the claims are about
PageOrgs(keys) ==
    [has |-> keys, tld_manager |-> "",
     admin |-> IF "admin" \in keys THEN "Admin Org" ELSE "",
     tech |-> IF "tech" \in keys THEN "Tech Org" ELSE ""]

PageOf(rdap, orgKeys, iso) ==
    [NoPage EXCEPT
        !.has = With(rdap, "rdap_server") \cup With(orgKeys # {}, "orgs")
                    \cup With(iso, "tld_iso"),
        !.rdap_server = IF rdap THEN PageUrl ELSE "",
        !.orgs = PageOrgs(orgKeys),
        !.tld_iso = IF iso THEN TW ELSE <<>>]

Pages == {PageOf(r, o, i) : r \in BOOLEAN, o \in SUBSET {"admin", "tech"},
                            i \in BOOLEAN}

EntryInputs ==
    [root_zone_entry : {RootEntry(l, t, m) : l \in Labels, t \in IanaTags,
                                               m \in Managers},
     rdap_lookup : RdapLookups,
     supplemental_rdap : SupplementalMaps,
     page_data : Pages,
     idn_script_mapping : ScriptMappings,
     registry_agreements : AgreementMaps,
     tld_manager_aliases : {[k \in {"TWNIC"} |-> "TWNIC alias"]},
     as_org_aliases : {[k \in {} |-> <<>>]},
     asn_lookup : {NoIndex("absent")}]

\* nameserver lists of a page: addresses inside and outside the ranges of
\* SampleTable, in both families
NsAddrsV4 == {<<>>, <<Addr(FALSE, <<0, 0>>)>>, <<Addr(FALSE, <<0, 1>>), Addr(FALSE, <<1, 1>>)>>}
NsAddrsV6 == {<<>>, <<Addr(TRUE, <<1, 0>>)>>}
Nameservers == {Nameserver("a.dns.example", a, b) : a \in NsAddrsV4, b \in NsAddrsV6}
NameserverLists == UNION {[1..n -> Nameservers] : n \in 0..MaxNameservers}
NsPages ==
    {NoPage} \cup {[NoPage EXCEPT !.has = {"nameservers"}, !.nameservers = l] :
                        l \in NameserverLists}

\* as-org-aliases.json as loaded: org name -> canonical alias
AliasTables ==
    {[k \in {} |-> <<>>],
     [k \in {"CLOUDFLARENET", "GOOGLE"} |-> IF k = "GOOGLE" THEN <<"b">> ELSE <<"a">>],
     [k \in {"CLOUDFLARENET", "GOOGLE"} |-> <<"a">>]}

\* asn_lookup: None, an index of well-formed rows, an index holding a row
\* whose end address does not parse
AsnIndexes ==
    {NoIndex("absent"), ASNLookupInit(SampleTable), ASNLookupInit(BrokenTable)}

\* inputs of a call that enriches nameservers
EnrichInputs ==
    [root_zone_entry : {RootEntry(COM, "generic", "VeriSign Global Registry Services")},
     rdap_lookup : {NoMap},
     supplemental_rdap : {[k \in {} |-> [rdap_server |-> ""]]},
     page_data : NsPages,
     idn_script_mapping : {NoMap},
     registry_agreements : {[k \in {} |-> [agreement_types |-> <<>>]]},
     tld_manager_aliases : {NoMap},
     as_org_aliases : AliasTables,
     asn_lookup : AsnIndexes]

NoInput ==
    [root_zone_entry |-> RootEntry(<<>>, "", ""),
     rdap_lookup |-> NoMap,
     supplemental_rdap |-> [k \in {} |-> [rdap_server |-> ""]],
     page_data |-> NoPage,
     idn_script_mapping |-> NoMap,
     registry_agreements |-> [k \in {} |-> [agreement_types |-> <<>>]],
     tld_manager_aliases |-> NoMap,
     as_org_aliases |-> [k \in {} |-> <<>>],
     asn_lookup |-> NoIndex("absent")]

NoEntry == [has |-> {}]
\* the call was left by an exception
EntryRaised == [has |-> {}, raised |-> TRUE]

EntryIdle ==
    /\ ein = NoInput
    /\ entry = NoEntry
    /\ entry2 = NoEntry
    /\ seed = 0

\* what a call of _build_tld_entry with the arguments in gives back
EntryResult(in) ==
    IF BuildTldEntryRaises(in.page_data, in.asn_lookup) THEN EntryRaised
    ELSE BuildTldEntry(in.root_zone_entry, in.rdap_lookup, in.supplemental_rdap,
                       in.page_data, in.idn_script_mapping, in.registry_agreements,
                       in.tld_manager_aliases, in.as_org_aliases, in.asn_lookup)

\* one call of _build_tld_entry
BuildTldEntryCall ==
    /\ entry = NoEntry
    /\ entry' = EntryResult(ein)
    /\ UNCHANGED <<ein, entry2, seed>>

\* a second call with the same arguments
BuildTldEntryAgain ==
    /\ entry # NoEntry
    /\ entry2 = NoEntry
    /\ entry2' = EntryResult(ein)
    /\ UNCHANGED <<ein, entry, seed>>

\* the process is started again: str hashes, and with them the iteration
\* order of a set of strings, change
Seeds == {0, 1}
Rehash ==
    /\ \E h \in Seeds \ {seed} : seed' = h
    /\ UNCHANGED <<ein, entry, entry2>>

(***************************************************************************)
(* build_tlds_json                                                         *)
(***************************************************************************)
\* datetime.now(timezone.utc).strftime("%Y-%m-%dT%H:%M:%SZ"): the stamp has
\* the resolution of one second
Strftime(now) == now \div TicksPerSecond
JTime(now) == [s |-> "%Y-%m-%dT%H:%M:%SZ", n |-> Strftime(now), l |-> <<>>]
JList(list) == [s |-> "", n |-> 0, l |-> list]

\* Mutant: the publication stamp takes part in the comparison.
BuildExcludeFields_None == <<>>

\* exclude_fields of the call in build_tlds_json
BuildExcludeFields == <<"publication">>

\* asn_lookup after the loading block (None unless built)
LoadAsnLookup(s) ==
    IF s.iptoasn.exists THEN ASNLookupInit(s.iptoasn.records) ELSE NoIndex("absent")

\* metadata.json after the loading block: IPTOASN.last_downloaded is stamped
\* when the index was built
MetadataAfter(built, meta, now) ==
    IF built
    THEN [has |-> TRUE, last_downloaded |-> Strftime(now)]
    ELSE meta

PageDataFor(s, tld) == IF tld \in DOMAIN s.pages THEN s.pages[tld] ELSE NoPage

\* the loop over root_zone_entries
BuildEntries(s) ==
    [i \in 1..Len(s.root_zone_entries) |->
        BuildTldEntry(s.root_zone_entries[i], s.rdap_lookup, s.supplemental_rdap,
                      PageDataFor(s, LStripDots(s.root_zone_entries[i].domain)),
                      s.idn_script_mapping, s.registry_agreements,
                      s.tld_manager_aliases, s.as_org_aliases, LoadAsnLookup(s))]

BuildEntriesRaises(s) ==
    \E i \in 1..Len(s.root_zone_entries) :
        BuildTldEntryRaises(
            PageDataFor(s, LStripDots(s.root_zone_entries[i].domain)),
            LoadAsnLookup(s))

\* tlds after the loop and _add_idn_mappings, for each snapshot
BuiltTlds == [name \in SourceSnapshots |-> AddIdnMappings(BuildEntries(Snapshot(name)))]
BuiltRaises == [name \in SourceSnapshots |-> BuildEntriesRaises(Snapshot(name))]
AsnLookupBuilt == [name \in SourceSnapshots |-> LoadAsnLookup(Snapshot(name)).state = "built"]

\* the output structure
BuildOutput(name, now) ==
    <<Pair("description", JStr("Enhanced TLD bootstrap data, from IANA sources")),
      Pair("publication", JTime(now)),
      Pair("sources", JStr("iana_root_db, iana_rdap")),
      Pair("tlds", JList(BuiltTlds[name]))>>

NoResult == [total_tlds |-> 0, output_file |-> FALSE, changed |-> FALSE,
             error |-> FALSE]

\* Mutant: the branch for status "error" is missing.
BuildResult_NoErrorBranch(w, n) ==
    IF w.status = "raised" THEN NoResult
    ELSE [total_tlds |-> n, output_file |-> TRUE, changed |-> w.changed,
          error |-> FALSE]

\* the result dict returned after the write call w, for n records
BuildResult(w, n) ==
    IF w.status = "raised" THEN NoResult
    ELSE IF w.status = "error"
    THEN [total_tlds |-> n, output_file |-> FALSE, changed |-> FALSE,
          error |-> TRUE]
    ELSE [total_tlds |-> n, output_file |-> TRUE, changed |-> w.changed,
          error |-> FALSE]

\* what the function returns and leaves on disk once the write call w is over
AfterWrite(w, n, meta) ==
    [status |-> IF w.status = "raised" THEN "raised" ELSE "returned",
     file |-> w.file, metadata |-> meta, result |-> BuildResult(w, n),
     rd |-> w.rd, wr |-> w.wr, wstatus |-> w.status]

\* the whole function on the snapshot called name: what it returns and what
\* it leaves on disk
BuildTldsJson(name, f, meta, now, env) ==
    IF BuiltRaises[name]
    THEN [status |-> "raised", file |-> f,
          metadata |-> MetadataAfter(AsnLookupBuilt[name], meta, now),
          result |-> NoResult, rd |-> "none", wr |-> "none", wstatus |-> "none"]
    ELSE AfterWrite(WriteJsonIfChanged(f, BuildOutput(name, now),
                                       BuildExcludeFields, env, now),
                    Len(BuiltTlds[name]),
                    MetadataAfter(AsnLookupBuilt[name], meta, now))

(***************************************************************************)
(* Build state machine: runs of build_tlds_json, the clock, and downloads  *)
(* that change the sources between runs.                                   *)
(***************************************************************************)
NoMetadata == [has |-> FALSE, last_downloaded |-> 0]
NoRun ==
    [status |-> "none", result |-> NoResult, publication |-> 0,
     srcs |-> "bare", pre |-> NoFile, rd |-> "none", wr |-> "none",
     wstatus |-> "none", exit |-> 0, repeat |-> FALSE]

\* cli.main for --build: the exit status of the process; an exception that
\* leaves build_tlds_json is not caught and ends the interpreter with 1
CliBuildExit(b) ==
    IF b.status = "raised" THEN 1
    ELSE IF b.result.error THEN 1
    ELSE 0
RunSummary(r) ==
    [status |-> r.status, error |-> r.result.error, publication |-> r.publication,
     rd |-> r.rd, wr |-> r.wr]

BuildIdle ==
    /\ srcs = "bare"
    /\ clock = 0
    /\ metadata = NoMetadata
    /\ run = NoRun
    /\ prevRun = RunSummary(NoRun)

\* repeat: the run reads the sources the run before it read
BuildRun(env) ==
    /\ ~file.exists => env.r = "ok"
    /\ \E b \in {BuildTldsJson(srcs, file, metadata, clock, env)} :
        /\ file' = b.file
        /\ metadata' = b.metadata
        /\ run' = [status |-> b.status, result |-> b.result,
                   publication |-> Strftime(clock), srcs |-> srcs, pre |-> file,
                   rd |-> b.rd, wr |-> b.wr,
                   wstatus |-> b.wstatus, exit |-> CliBuildExit(b),
                   repeat |-> (run.status # "none" /\ run.srcs = srcs)]
    /\ prevRun' = RunSummary(run)
    /\ UNCHANGED <<srcs, clock>>

Tick ==
    /\ clock < MaxTicks
    /\ clock' = clock + 1
    /\ UNCHANGED <<file, srcs, metadata, run, prevRun>>

\* a download replaces the source files
SourcesUpdated(s) ==
    /\ s # srcs
    /\ srcs' = s
    /\ UNCHANGED <<file, clock, metadata, run, prevRun>>

(***************************************************************************)
(* Persistence state machine: calls of write_json_if_changed on one path.  *)
(***************************************************************************)
\* The behaviours of the file system during one call: whether reading the
\* existing file raises, and how the write ends.
Envs ==
    {e \in [r : {"ok", "ioerror"}, w : {"ok", "openfail", "partial"}, cut : 0..MaxCut] :
        /\ e.w # "partial" => e.cut = 0
        /\ e.w = "partial" => e.r = "ok"}

NoCall ==
    [status |-> "none", changed |-> FALSE, data |-> <<>>, exclude |-> <<>>,
     pre |-> NoFile, rd |-> "none", wr |-> "none", repeat |-> FALSE]

\* repeat: the call has the arguments of the call before it
CallRecord(f, data, exclude, res, before) ==
    [status |-> res.status, changed |-> res.changed, data |-> data,
     exclude |-> exclude, pre |-> f, rd |-> res.rd, wr |-> res.wr,
     repeat |-> (before.status # "none" /\ before.data = data
                    /\ before.exclude = exclude)]

\* What may be at the path before the first call: nothing, a document written
\* earlier, a document holding a list or a scalar, or text that is not JSON.
InitTexts ==
    {Written(d) : d \in Dicts}
        \cup {<<Tok("["), ElemTok(JStr("x")), Tok("]"), Tok("nl")>>,
              <<ElemTok(JStr("x"))>>,
              <<Tok("{"), Tok("junk"), Tok("}")>>}

\* What the next call remembers of the call before it.
Summary(c) ==
    [status |-> c.status, preExists |-> c.pre.exists, rd |-> c.rd, wr |-> c.wr]

(***************************************************************************)
(* _add_idn_mappings applied to a list of built records.                   *)
(***************************************************************************)
IDN_TW2 == ACE \o <<"a">>
CN == <<"c", "n">>
XrefLabels == {TW, UK, IDN_TW, IDN_TW2}
\* country codes a page may name; no record has the label CN
IsoCodes == {TW, CN}
IsoPage(iso) == [NoPage EXCEPT !.has = {"tld_iso"}, !.tld_iso = iso]
XrefPages == {NoPage} \cup {IsoPage(c) : c \in IsoCodes}

\* the record _build_tld_entry makes of a root zone entry and its page
XrefRecord(label, page, idx) ==
    BuildTldEntry(RootEntry(label, "country-code", "TWNIC"), NoMap,
                  [k \in {} |-> [rdap_server |-> ""]], page, NoMap,
                  [k \in {} |-> [agreement_types |-> <<>>]], NoMap,
                  [k \in {} |-> <<>>], idx)

XrefRecords == {XrefRecord(l, p, NoIndex("absent")) : l \in XrefLabels, p \in XrefPages}
XrefLists == UNION {[1..n -> XrefRecords] : n \in 0..MaxEntries}

\* xref.n: applications so far; xref.before: the list before the latest one
NoXref == [n |-> 0, before |-> <<>>]

AddIdnMappingsCall ==
    /\ xref.n < MaxPasses
    /\ tld_list' = AddIdnMappings(tld_list)
    /\ xref' = [n |-> xref.n + 1, before |-> tld_list]
    /\ UNCHANGED pipe

(***************************************************************************)
(* build_tlds_json taken one statement at a time: the loop over            *)
(* root_zone_entries, _add_idn_mappings, write_json_if_changed.            *)
(***************************************************************************)
\* a page with one nameserver address
NsPage ==
    [NoPage EXCEPT
        !.has = {"nameservers"},
        !.nameservers = <<Nameserver("a.dns.tw", <<Addr(FALSE, <<0, 1>>)>>, <<>>)>>]

\* tld_page_data of a run
PageMaps ==
    {[k \in {} |-> NoPage],
     [k \in {IDN_TW, IDN_TW2} |-> IsoPage(TW)],
     [k \in {IDN_TW} |-> IsoPage(CN)],
     [k \in {UK} |-> NsPage]}

AsnLookups == {NoIndex("absent"), ASNLookupInit(BrokenTable)}

RootLists == UNION {[1..n -> XrefLabels] : n \in 0..MaxEntries}

NoPipe ==
    [pc |-> "idle", roots |-> <<>>, pages |-> [k \in {} |-> NoPage],
     asn_lookup |-> NoIndex("absent"), handed |-> <<>>]

\* page_data = tld_page_data.get(tld, {})
PipePage(p, i) == IF p.roots[i] \in DOMAIN p.pages THEN p.pages[p.roots[i]] ELSE NoPage
\* the record built for the i-th root zone entry
PipeEntry(p, i) == XrefRecord(p.roots[i], PipePage(p, i), p.asn_lookup)

\* Mutant: the cross references are made while the list is being built.
AppendBuilt_LinkingEarly(list, e) == AddIdnMappings(Append(list, e))

\* tlds.append(tld_entry)
AppendBuilt(list, e) == Append(list, e)

\* one iteration of the loop; an exception of the builder ends the run
BuildEntryStep ==
    /\ pipe.pc = "build"
    /\ Len(tld_list) < Len(pipe.roots)
    /\ IF BuildTldEntryRaises(PipePage(pipe, Len(tld_list) + 1), pipe.asn_lookup)
       THEN /\ pipe' = [pipe EXCEPT !.pc = "raised"]
            /\ UNCHANGED tld_list
       ELSE /\ tld_list' = AppendBuilt(tld_list, PipeEntry(pipe, Len(tld_list) + 1))
            /\ UNCHANGED pipe
    /\ UNCHANGED xref

\* the loop is over: _add_idn_mappings(tlds)
LinkStep ==
    /\ pipe.pc = "build"
    /\ Len(tld_list) = Len(pipe.roots)
    /\ tld_list' = AddIdnMappings(tld_list)
    /\ xref' = [n |-> xref.n + 1, before |-> tld_list]
    /\ pipe' = [pipe EXCEPT !.pc = "persist"]

\* output = {..., "tlds": tlds}; write_json_if_changed(output_path, output, ...)
PersistStep ==
    /\ pipe.pc = "persist"
    /\ pipe' = [pipe EXCEPT !.pc = "done", !.handed = tld_list]
    /\ UNCHANGED <<tld_list, xref>>

(***************************************************************************)
(* make_request_with_retry: what one client.get(url) may do, and the       *)
(* tenacity loop around _request.                                          *)
(***************************************************************************)
Response(code) == [kind |-> "response", code |-> code, name |-> ""]
TransportError(name) == [kind |-> "transport", code |-> 0, name |-> name]
OtherError(name) == [kind |-> "other", code |-> 0, name |-> name]
\* raise ServerError(f"Server returned {response.status_code} for {url}")
ServerError(code) == [kind |-> "server_error", code |-> code, name |-> "ServerError"]
NoOutcome == [kind |-> "none", code |-> 0, name |-> ""]

StatusCodes == {200, 404, 500, 503}
Outcomes ==
    {Response(c) : c \in StatusCodes}
        \cup {TransportError(n) : n \in {"ConnectError", "ReadTimeout"}}
        \cup {OtherError("TooManyRedirects")}

\* if 500 <= response.status_code < 600
IsServerError(o) == o.kind = "response" /\ 500 <= o.code /\ o.code < 600

\* what _request does with the outcome of client.get: the response, or the
\* exception that leaves it
RequestResult(o) == IF IsServerError(o) THEN ServerError(o.code) ELSE o

\* Mutant: every error status raises and is retried.
Retryable_ClientErrorsToo(r) ==
    r.kind \in {"transport", "server_error"} \/ (r.kind = "response" /\ r.code >= 400)

\* retry=retry_if_exception_type((httpx.TransportError, ServerError))
Retryable(r) == r.kind \in {"transport", "server_error"}

\* stop=stop_after_attempt(max_attempts)
StopAfterAttempt(attempt_number, max_attempts) == attempt_number >= max_attempts

NoRetry == [state |-> "idle", max_attempts |-> 0, log |-> <<>>, result |-> NoOutcome]

\* one attempt: client.get answers with o
Request(o) ==
    /\ retry.state = "calling"
    /\ LET r == RequestResult(o)
           n == Len(retry.log) + 1
       IN retry' =
            [retry EXCEPT
                !.log = Append(@, o),
                !.state = IF ~Retryable(r)
                          THEN (IF r.kind = "response" THEN "returned" ELSE "raised")
                          ELSE IF StopAfterAttempt(n, retry.max_attempts)
                          THEN "raised"
                          ELSE "sleeping",
                !.result = IF Retryable(r) /\ ~StopAfterAttempt(n, retry.max_attempts)
                           THEN NoOutcome ELSE r]

\* the wait between two attempts is over
Wake ==
    /\ retry.state = "sleeping"
    /\ retry' = [retry EXCEPT !.state = "calling"]

\* What the caller's history of calls on the path has in common so far:
\* clean: every call had the same exclude_fields list and met no I/O failure
\* (neither the read nor the write raised OSError); wdata: the dataset of the
\* most recent call that returned "written".
NoHist == [clean |-> TRUE, exclude |-> <<>>, written |-> FALSE, wdata |-> <<>>]

HistAfter(h, n, data, exclude, env, res) ==
    [clean |-> /\ h.clean
               /\ env.r = "ok" /\ env.w = "ok"
               /\ (n = 0 \/ exclude = h.exclude),
     exclude |-> exclude,
     written |-> h.written \/ res.status = "written",
     wdata |-> IF res.status = "written" THEN data ELSE h.wdata]

XrefIdle ==
    /\ tld_list = <<>>
    /\ xref = NoXref
    /\ pipe = NoPipe

RetryIdle == retry = NoRetry

PersistenceIdle ==
    /\ file = NoFile
    /\ last = NoCall
    /\ prev = Summary(NoCall)
    /\ ncalls = 0
    /\ hist = NoHist

Init ==
    /\ file \in {NoFile} \cup {FileOf(t, 0) : t \in InitTexts}
    /\ last = NoCall
    /\ prev = Summary(NoCall)
    /\ ncalls = 0
    /\ hist = NoHist
    /\ ASNIdle
    /\ BuildIdle
    /\ EntryIdle
    /\ XrefIdle
    /\ RetryIdle

WriteCall(data, exclude, env) ==
    /\ ncalls < MaxCalls
    /\ ~file.exists => env.r = "ok"
    /\ LET res == WriteJsonIfChanged(file, data, exclude, env, ncalls + 1) IN
        /\ file' = res.file
        /\ last' = CallRecord(file, data, exclude, res, last)
        /\ hist' = HistAfter(hist, ncalls, data, exclude, env, res)
    /\ prev' = Summary(last)
    /\ ncalls' = ncalls + 1
    /\ UNCHANGED <<avars, bvars, evars, xvars, rvars>>

Next == \E data \in Dicts, exclude \in ExcludeLists, env \in Envs :
            WriteCall(data, exclude, env)

Spec == Init /\ [][Next]_vars

(***************************************************************************)
(* Properties of write_json_if_changed                                     *)
(***************************************************************************)
Called == last.status # "none"
NoIOFailure(c) == c.rd # "ioerror" /\ c.wr \in {"none", "ok"}

\* The value the file held before the last call, as the call could read it.
Prior == JsonLoad(last.pre.text)
PriorParsed == last.pre.exists /\ last.rd # "ioerror" /\ Prior.ok

\* Two mappings agree on every field outside fields.
SameOutside(m1, m2, fields) ==
    \A k \in ((DOMAIN m1) \cup (DOMAIN m2)) \ fields :
        k \in DOMAIN m1 /\ k \in DOMAIN m2 /\ m1[k] = m2[k]

Excluded(c) == {c.exclude[i] : i \in 1..Len(c.exclude)}

PriorDiffersOnlyInExcluded ==
    /\ PriorParsed
    /\ Prior.kind = "dict"
    /\ SameOutside(Prior.map, AsMap(last.data), Excluded(last))

PriorDiffersOutsideExcluded ==
    /\ PriorParsed
    /\ Prior.kind = "dict" => ~SameOutside(Prior.map, AsMap(last.data), Excluded(last))

\* C1: starting with no file, two consecutive calls with the same dataset and
\* the same exclude_fields and no I/O failure return "written", then
\* "unchanged".
C1_IdempotentWrite ==
    (/\ prev.status # "none" /\ ~prev.preExists
     /\ last.repeat
     /\ NoIOFailure(prev) /\ NoIOFailure(last))
        => (prev.status = "written" /\ last.status = "unchanged")

C1_Witness ==
    /\ prev.status = "written" /\ ~prev.preExists /\ last.repeat
    /\ NoIOFailure(prev) /\ NoIOFailure(last)
    /\ last.status = "unchanged"
    /\ last.exclude # <<>>
    /\ Len(last.data) = 2

\* C2: when the existing file parses to a dataset that differs from the new
\* one only in top-level excluded fields, the call returns (False,
\* "unchanged") and writes nothing: text and modification time are those of
\* before the call.
C2_VolatileBlindness ==
    (Called /\ PriorDiffersOnlyInExcluded)
        => (/\ last.status = "unchanged" /\ ~last.changed
            /\ last.wr = "none"
            /\ file = last.pre)

C2_Witness ==
    /\ Called /\ PriorDiffersOnlyInExcluded
    /\ "publication" \in DOMAIN Prior.map
    /\ "publication" \in DOMAIN AsMap(last.data)
    /\ Prior.map["publication"] # AsMap(last.data)["publication"]
    /\ last.status = "unchanged"
    /\ JsonLoad(file.text).map["publication"] = Prior.map["publication"]
    /\ file.mtime < ncalls

\* C3: with no prior file, or a prior file that differs from the new dataset
\* in a non-excluded field, a write that succeeds gives "written" and leaves
\* exactly the new dataset (excluded fields included) in the file; the call
\* is never reported "unchanged".
C3_WrittenWhenChanged ==
    (Called /\ (~last.pre.exists \/ PriorDiffersOutsideExcluded))
        => (/\ last.status # "unchanged"
            /\ last.wr = "ok" =>
                  (/\ last.status = "written" /\ last.changed
                   /\ file.exists /\ file.text = Written(last.data)
                   /\ JsonLoad(file.text).kind = "dict"
                   /\ JsonLoad(file.text).map = AsMap(last.data)))

C3_Witness ==
    /\ Called /\ PriorDiffersOutsideExcluded /\ Prior.kind = "dict"
    /\ last.wr = "ok" /\ last.status = "written"
    /\ last.exclude # <<>>
    /\ "publication" \in DOMAIN Prior.map
    /\ "publication" \in DOMAIN AsMap(last.data)
    /\ Prior.map["publication"] # AsMap(last.data)["publication"]
    /\ JsonLoad(file.text).map["publication"] = AsMap(last.data)["publication"]

\* C4: a prior file whose content fails to parse is treated as changed: the
\* call attempts the overwrite and, when the write succeeds, returns (True,
\* "written") with the new dataset in the file.
C4_CorruptOverwritten ==
    (Called /\ last.pre.exists /\ ~Prior.ok)
        => (/\ last.wr # "none"
            /\ last.status # "unchanged"
            /\ last.wr = "ok" =>
                  (/\ last.status = "written" /\ last.changed
                   /\ file.text = Written(last.data)))

C4_Witness ==
    /\ Called /\ last.pre.exists /\ ~Prior.ok /\ last.rd = "corrupt"
    /\ last.status = "written" /\ JsonLoad(file.text).ok

\* C5 (as stated): a read I/O failure on the existing file gives status
\* "error" with changed = False, and so does any failure while writing.
C5_ReadFailureIsError ==
    /\ last.rd = "ioerror" => (last.status = "error" /\ ~last.changed)
    /\ last.wr \in {"openfail", "partial"} => (last.status = "error" /\ ~last.changed)

\* C5 (amended): a read I/O failure makes the call attempt the overwrite; it
\* returns (True, "written") when that write succeeds and (False, "error")
\* when it fails; any failure while writing gives (False, "error").
C5_ReadFailureOverwrites ==
    /\ last.rd = "ioerror" =>
          (/\ last.wr # "none"
           /\ last.wr = "ok" => (last.status = "written" /\ last.changed)
           /\ last.wr # "ok" => (last.status = "error" /\ ~last.changed))
    /\ last.wr \in {"openfail", "partial"} => (last.status = "error" /\ ~last.changed)

C5_Witness ==
    /\ last.rd = "ioerror" /\ Prior.ok /\ last.wr = "ok"
    /\ last.status = "written" /\ file.text = Written(last.data)

\* C6: a call that ends with status "error" leaves the file absent, untouched
\* or holding a complete document, never a truncated one.
C6_NoPartialWrites ==
    last.status = "error" =>
        (~file.exists \/ file = last.pre \/ JsonLoad(file.text).ok)

\* C7: the call never raises: whatever the prior state of the file and the
\* exclude_fields list, it returns one of the three statuses.
C7_NeverRaises ==
    Called => last.status \in {"written", "unchanged", "error"}

\* C26: in every result the changed flag is true exactly when the status is
\* "written" (false for "unchanged" and for "error"), and a call leaves the
\* file as it found it unless it attempted a write.
C26_ChangedIffWritten ==
    /\ last.status \in {"written", "unchanged", "error"} =>
          (last.changed <=> last.status = "written")
    /\ (Called /\ file # last.pre) => last.wr # "none"

C26_Witness ==
    /\ last.status = "error" /\ ~last.changed
    /\ last.wr = "partial" /\ file # last.pre
    /\ prev.status = "unchanged"

\* C29: after a sequence of calls with one exclude_fields list and no I/O
\* failure, the file outside the excluded fields equals the dataset of the
\* most recent call, and its excluded fields are those of the dataset of the
\* most recent call that returned "written".
C29_FileFollowsCalls ==
    (Called /\ hist.clean) =>
        LET cur == JsonLoad(file.text)
            ex == {last.exclude[i] : i \in 1..Len(last.exclude)}
        IN  /\ cur.ok /\ cur.kind = "dict"
            /\ PopAll(cur.map, last.exclude) = PopAll(AsMap(last.data), last.exclude)
            /\ hist.written =>
                  \A k \in ex :
                     /\ k \in DOMAIN cur.map <=> k \in DOMAIN AsMap(hist.wdata)
                     /\ k \in DOMAIN cur.map => cur.map[k] = AsMap(hist.wdata)[k]

InitXref ==
    /\ tld_list \in XrefLists
    /\ xref = NoXref
    /\ pipe = NoPipe
    /\ PersistenceIdle
    /\ ASNIdle
    /\ BuildIdle
    /\ EntryIdle
    /\ RetryIdle

NextXref == AddIdnMappingsCall /\ UNCHANGED <<pvars, avars, bvars, evars, rvars>>

SpecXref == InitXref /\ [][NextXref]_vars

InitPipeline ==
    /\ tld_list = <<>>
    /\ xref = NoXref
    /\ pipe \in {[NoPipe EXCEPT !.pc = "build", !.roots = r, !.pages = m,
                                !.asn_lookup = a] :
                    r \in RootLists, m \in PageMaps, a \in AsnLookups}
    /\ PersistenceIdle
    /\ ASNIdle
    /\ BuildIdle
    /\ EntryIdle
    /\ RetryIdle

NextPipeline ==
    \/ BuildEntryStep /\ UNCHANGED <<pvars, avars, bvars, evars, rvars>>
    \/ LinkStep /\ UNCHANGED <<pvars, avars, bvars, evars, rvars>>
    \/ PersistStep /\ UNCHANGED <<pvars, avars, bvars, evars, rvars>>

SpecPipeline == InitPipeline /\ [][NextPipeline]_vars

\* every caller passes max_attempts >= 1 (the default is 3, the tests use 2)
InitRetry ==
    /\ retry \in {[NoRetry EXCEPT !.state = "calling", !.max_attempts = m] :
                    m \in 1..MaxAttempts}
    /\ PersistenceIdle
    /\ ASNIdle
    /\ BuildIdle
    /\ EntryIdle
    /\ XrefIdle

NextRetry ==
    \/ \E o \in Outcomes : Request(o) /\ UNCHANGED <<pvars, avars, bvars, evars, xvars>>
    \/ Wake /\ UNCHANGED <<pvars, avars, bvars, evars, xvars>>

\* client.get returns or raises within the client's timeout and a sleep
\* ends, so a step that is possible is eventually taken
SpecRetry == InitRetry /\ [][NextRetry]_vars /\ WF_vars(NextRetry)

(***************************************************************************)
(* Properties of _add_idn_mappings.                                        *)
(***************************************************************************)
Linked == xref.n >= 1
UniqueLabels(list) == \A i, j \in 1..Len(list) : list[i].tld = list[j].tld => i = j
\* the entries whose tld_iso is the label
VariantsOf(list, label) ==
    {j \in 1..Len(list) : "tld_iso" \in list[j].has /\ list[j].tld_iso = label}
\* the entry without what the pass may attach
WithoutIdn(e) == [e EXCEPT !.has = @ \ {"idn"}, !.idn = <<>>]

\* C21: after the pass over records with unique labels, a record carries an
\* idn list exactly when some record's tld_iso is its label, the list holds
\* exactly the labels of those records in lexicographic order, and a tld_iso
\* naming a label that no record has is passed over.
C21_CrossReferenceSymmetry ==
    (Linked /\ UniqueLabels(tld_list)) =>
        /\ Len(tld_list) = Len(xref.before)
        /\ \A i \in 1..Len(tld_list) :
              LET vs == VariantsOf(tld_list, tld_list[i].tld)
                  idn == tld_list[i].idn
              IN /\ "idn" \in tld_list[i].has <=> vs # {}
                 /\ "idn" \in tld_list[i].has =>
                       /\ {idn[k] : k \in 1..Len(idn)} = {tld_list[j].tld : j \in vs}
                       /\ Len(idn) = Cardinality(vs)
                       /\ \A k \in 1..(Len(idn) - 1) : StrLess(idn[k], idn[k + 1])
                 /\ "idn" \notin tld_list[i].has => idn = <<>>

\* two variants listed out of order are attached in order, next to a record
\* whose tld_iso names no record
C21_Witness ==
    /\ Linked /\ UniqueLabels(tld_list) /\ Len(tld_list) = MaxEntries
    /\ \E i, j, k \in 1..Len(tld_list) :
          /\ j < k /\ "idn" \in tld_list[i].has
          /\ tld_list[i].idn = <<tld_list[k].tld, tld_list[j].tld>>
    /\ xref.n = 1

\* C30: a second application of the pass leaves every record as the first
\* left it, and an application changes nothing but the idn list of the
\* records that some tld_iso names.
C30_IdempotentAndLocal ==
    /\ xref.n >= 2 => tld_list = xref.before
    /\ Linked =>
          /\ Len(tld_list) = Len(xref.before)
          /\ \A i \in 1..Len(tld_list) :
                /\ WithoutIdn(tld_list[i]) = WithoutIdn(xref.before[i])
                /\ VariantsOf(xref.before, xref.before[i].tld) = {} =>
                      tld_list[i] = xref.before[i]

C30_Witness ==
    /\ xref.n = 2 /\ tld_list = xref.before
    /\ \E i, j \in 1..Len(tld_list) :
          /\ Len(tld_list[i].idn) = 2
          /\ "idn" \notin tld_list[j].has /\ "tld_iso" \in tld_list[j].has

(***************************************************************************)
(* Properties of the statement order of build_tlds_json.                   *)
(***************************************************************************)
\* C22: the cross-reference pass starts only when a record has been built
\* for every root zone entry, write_json_if_changed is handed the list only
\* after the pass, and until the pass every record is as its own build left
\* it: building a record changes no record built before it.
C22_PipelineOrder ==
    /\ [](/\ Linked =>
               /\ Len(xref.before) = Len(pipe.roots)
               /\ \A i \in 1..Len(pipe.roots) : xref.before[i] = PipeEntry(pipe, i)
          /\ pipe.pc \in {"persist", "done"} =>
               (xref.n = 1 /\ tld_list = AddIdnMappings(xref.before))
          /\ pipe.pc = "done" => pipe.handed = tld_list
          /\ pipe.pc \in {"build", "raised"} =>
               /\ xref.n = 0 /\ pipe.handed = <<>>
               /\ \A i \in 1..Len(tld_list) : tld_list[i] = PipeEntry(pipe, i))
    /\ [][xref'.n = 0 => SubSeq(tld_list', 1, Len(tld_list)) = tld_list]_vars

\* a run that linked a variant built after its target and handed the list on
C22_Witness ==
    /\ pipe.pc = "done" /\ Len(pipe.roots) = MaxEntries
    /\ \E i, j \in 1..Len(tld_list) :
          /\ i < j /\ tld_list[i].idn = <<tld_list[j].tld>>
          /\ "idn" \notin xref.before[i].has

(***************************************************************************)
(* Properties of make_request_with_retry.                                  *)
(***************************************************************************)
Finished == retry.state \in {"returned", "raised"}
Attempts == Len(retry.log)
\* the outcome of client.get is a transport error or a 5xx response
Failed(o) == o.kind = "transport" \/ (o.kind = "response" /\ o.code \in 500..599)

\* C28: the call ends after at most max_attempts requests: every request
\* but the last met a transport error or a 5xx response, the first response
\* that is not 5xx is returned at once (a 4xx answer to the first request
\* ends the call after that one request), and max_attempts failed attempts
\* end it with the last transport error or ServerError raised.
C28_BoundedRetry ==
    /\ [](/\ Attempts <= retry.max_attempts
          /\ \A i \in 1..(Attempts - 1) : Failed(retry.log[i])
          /\ \A i \in 1..Attempts :
                (retry.log[i].kind = "response" /\ ~Failed(retry.log[i])) =>
                    (/\ i = Attempts /\ retry.state = "returned"
                     /\ retry.result = retry.log[i])
          /\ (Attempts >= 1 /\ retry.log[1].code \in 400..499) =>
                (Attempts = 1 /\ retry.state = "returned")
          /\ retry.state = "returned" => retry.result.kind = "response"
          /\ (Attempts >= 1 /\ Failed(retry.log[Attempts])) =>
                IF Attempts = retry.max_attempts
                THEN /\ retry.state = "raised"
                     /\ retry.result =
                           (IF retry.log[Attempts].kind = "transport"
                            THEN retry.log[Attempts]
                            ELSE ServerError(retry.log[Attempts].code))
                ELSE retry.state \in {"sleeping", "calling"})
    /\ <>Finished

C28_Witness ==
    /\ retry.state = "raised" /\ Attempts = MaxAttempts
    /\ retry.max_attempts = MaxAttempts
    /\ retry.log[1].kind = "transport" /\ retry.log[Attempts].code = 503
    /\ retry.result = ServerError(503)

(***************************************************************************)
(* Calls of _build_tld_entry that enrich nameservers, made twice while the *)
(* clock runs and the process is restarted.                                *)
(***************************************************************************)
InitEnrich ==
    /\ ein \in EnrichInputs
    /\ entry = NoEntry
    /\ entry2 = NoEntry
    /\ seed \in Seeds
    /\ PersistenceIdle
    /\ ASNIdle
    /\ BuildIdle
    /\ XrefIdle
    /\ RetryIdle

NextEnrich ==
    \/ BuildTldEntryCall /\ UNCHANGED <<pvars, avars, bvars, xvars, rvars>>
    \/ BuildTldEntryAgain /\ UNCHANGED <<pvars, avars, bvars, xvars, rvars>>
    \/ Rehash /\ UNCHANGED <<pvars, avars, bvars, xvars, rvars>>
    \/ Tick /\ UNCHANGED <<last, prev, ncalls, hist, avars, evars, xvars, rvars>>

SpecEnrich == InitEnrich /\ [][NextEnrich]_vars

AsOrgsOf(e) ==
    UNION {{e.nameservers[i].ipv4[j].as_org : j \in 1..Len(e.nameservers[i].ipv4)}
              \cup {e.nameservers[i].ipv6[j].as_org : j \in 1..Len(e.nameservers[i].ipv6)} :
           i \in 1..Len(e.nameservers)}
\* their canonical aliases
AliasesOf(e) == {ein.as_org_aliases[o] : o \in AsOrgsOf(e) \cap DOMAIN ein.as_org_aliases}
EntryBuilt == entry # NoEntry /\ entry # EntryRaised

\* C25: the as_org_aliases annotation lists, each once, the canonical
\* aliases of the org names resolved for the IPv4 and IPv6 addresses of the
\* record's nameservers that the alias table knows, and is absent when there
\* is none.
C25_AsOrgAliases ==
    EntryBuilt =>
        LET ann == entry.annotations.as_org_aliases IN
        /\ "as_org_aliases" \in entry.annotations.has <=> AliasesOf(entry) # {}
        /\ {ann[k] : k \in 1..Len(ann)} = AliasesOf(entry)
        /\ Len(ann) = Cardinality(AliasesOf(entry))
        /\ AliasesOf(entry) # {} => "annotations" \in entry.has

\* two nameservers, an IPv4 and an IPv6 address whose orgs share one alias
C25_Witness ==
    /\ EntryBuilt /\ Len(entry.nameservers) = 2
    /\ Cardinality(AsOrgsOf(entry) \cap DOMAIN ein.as_org_aliases) = 2
    /\ entry.annotations.as_org_aliases = <<<<"a">>>>
    /\ \E i \in 1..2 : entry.nameservers[i].ipv4 = <<>> /\ entry.nameservers[i].ipv6 # <<>>

InitASN ==
    /\ table \in Tables
    /\ index = NoIndex("init")
    /\ lk = NoLookup
    /\ ipObj = NoIPObject
    /\ PersistenceIdle
    /\ BuildIdle
    /\ EntryIdle
    /\ XrefIdle
    /\ RetryIdle

NextASN ==
    \/ LoadIptoasn /\ UNCHANGED <<pvars, bvars, evars, xvars, rvars>>
    \/ NoIptoasnData /\ UNCHANGED <<pvars, bvars, evars, xvars, rvars>>
    \/ \E ip \in AddrStrings : LookupCall(ip) /\ UNCHANGED <<pvars, bvars, evars, xvars, rvars>>
    \/ \E ip \in AddrStrings : IpToAsnObjectCall(ip) /\ UNCHANGED <<pvars, bvars, evars, xvars, rvars>>

SpecASN == InitASN /\ [][NextASN]_vars

\* tlds.json before the first run: absent, or left unusable by an earlier run
InitBuild ==
    /\ file \in {NoFile, FileOf(<<Tok("{"), Tok("junk"), Tok("}")>>, 0)}
    /\ last = NoCall
    /\ prev = Summary(NoCall)
    /\ ncalls = 0
    /\ hist = NoHist
    /\ ASNIdle
    /\ srcs \in SourceSnapshots
    /\ clock = 0
    /\ metadata = NoMetadata
    /\ run = NoRun
    /\ prevRun = RunSummary(NoRun)
    /\ EntryIdle
    /\ XrefIdle
    /\ RetryIdle

NextBuild ==
    \/ \E env \in Envs : BuildRun(env) /\ UNCHANGED <<last, prev, ncalls, hist, avars, evars, xvars, rvars>>
    \/ Tick /\ UNCHANGED <<last, prev, ncalls, hist, avars, evars, xvars, rvars>>
    \/ \E s \in SourceSnapshots : SourcesUpdated(s) /\ UNCHANGED <<last, prev, ncalls, hist, avars, evars, xvars, rvars>>

SpecBuild == InitBuild /\ [][NextBuild]_vars

InitEntry ==
    /\ ein \in EntryInputs
    /\ entry = NoEntry
    /\ entry2 = NoEntry
    /\ seed = 0
    /\ PersistenceIdle
    /\ ASNIdle
    /\ BuildIdle
    /\ XrefIdle
    /\ RetryIdle

NextEntry == BuildTldEntryCall /\ UNCHANGED <<pvars, avars, bvars, xvars, rvars>>

SpecEntry == InitEntry /\ [][NextEntry]_vars

(***************************************************************************)
(* Properties of the range index                                           *)
(***************************************************************************)
IntOf(a) == Positional(a.digits)

\* the range of row r contains the address ip (same family, bounds included)
Covers(r, ip) ==
    /\ GoodRow(r)
    /\ r.start_ip.colon = ip.colon
    /\ IntOf(r.start_ip) <= IntOf(ip)
    /\ IntOf(ip) <= IntOf(r.end_ip)

Overlap(r1, r2) ==
    /\ r1.start_ip.colon = r2.start_ip.colon
    /\ IntOf(r1.start_ip) <= IntOf(r2.end_ip)
    /\ IntOf(r2.start_ip) <= IntOf(r1.end_ip)

NonOverlappingTable ==
    /\ \A i \in 1..Len(table) : GoodRow(table[i])
    /\ \A i, j \in 1..Len(table) : i # j => ~Overlap(table[i], table[j])

LookedUp == index.state = "built" /\ lk.status # "none" /\ lk.ip \in ValidAddrs

\* C9: on an index built from ranges that do not overlap within a family,
\* lookup(ip) returns the range containing ip (bounds included) when there is
\* one and none otherwise.
C9_LookupCorrect ==
    (LookedUp /\ NonOverlappingTable)
        => (/\ lk.status = "ok"
            /\ \A i \in 1..Len(table) :
                  Covers(table[i], lk.ip) => (lk.found /\ lk.rec = table[i])
            /\ (~\E i \in 1..Len(table) : Covers(table[i], lk.ip)) => ~lk.found)

\* a hit on the start of a range that is not the first of its family
C9_Witness ==
    /\ LookedUp /\ NonOverlappingTable /\ lk.found
    /\ lk.ip = lk.rec.start_ip
    /\ \E i \in 1..Len(table) :
          /\ table[i].start_ip.colon = lk.ip.colon
          /\ IntOf(table[i].end_ip) < IntOf(lk.ip)

\* C27: when ranges of one family overlap, lookup(ip) for an address that
\* some range covers returns the latest-starting range that contains ip.
C27_LatestStartingCover ==
    (/\ LookedUp
     /\ \A i \in 1..Len(table) : GoodRow(table[i])
     /\ \E i, j \in 1..Len(table) : i # j /\ Overlap(table[i], table[j])
     /\ \E i \in 1..Len(table) : Covers(table[i], lk.ip))
        => (/\ lk.status = "ok" /\ lk.found
            /\ Covers(lk.rec, lk.ip)
            /\ \A i \in 1..Len(table) :
                  Covers(table[i], lk.ip) =>
                      IntOf(table[i].start_ip) <= IntOf(lk.rec.start_ip))

\* C10: the IP record of an address with no covering range carries as_org
\* "Unknown" and as_country "None" and never asn = 0.
C10_MissNeverAsnZero ==
    (/\ ipObj.status = "ok" /\ index.state = "built"
     /\ ipObj.ip \in ValidAddrs
     /\ ~\E i \in 1..Len(table) : Covers(table[i], ipObj.ip))
        => (/\ ipObj.as_org = "Unknown" /\ ipObj.as_country = "None"
            /\ ipObj.asn # 0)

\* an address was enriched against a built index
Enriched == index.state = "built" /\ ipObj.status = "ok" /\ ipObj.ip \in ValidAddrs

\* C11: a range with asn = 0 that covers the address is returned by lookup as
\* a match, and the IP record carries asn 0 with that range's own org and
\* country, not the "Unknown"/"None" sentinel.
C11_NotRoutedIsAHit ==
    /\ (Enriched /\ NonOverlappingTable)
            => \A i \in 1..Len(table) :
                  (Covers(table[i], ipObj.ip) /\ table[i].asn = 0)
                      => (/\ lk.found /\ lk.rec = table[i]
                          /\ ipObj.asn = 0
                          /\ ipObj.as_org = table[i].org
                          /\ ipObj.as_country = table[i].country)
    /\ (Enriched /\ lk.found /\ lk.rec.asn = 0)
            => (/\ ipObj.asn = 0
                /\ ipObj.as_org = lk.rec.org /\ ipObj.as_country = lk.rec.country)

\* an address strictly inside a "Not routed" range, next to a routed range
C11_Witness ==
    /\ Enriched /\ NonOverlappingTable
    /\ lk.found /\ lk.rec.asn = 0 /\ Covers(lk.rec, ipObj.ip)
    /\ ipObj.asn = 0 /\ ipObj.as_org = "Not routed"
    /\ \E i \in 1..Len(table) : table[i].asn # 0

\* the constructor has run on the table (inside the try block of the build)
Constructed == index.state \in {"built", "failed"}

\* C12: a row with a malformed start address is skipped: construction
\* succeeds and every well-formed row of the table is indexed.
C12_BadStartRowSkipped ==
    (Constructed /\ \E i \in 1..Len(table) : StartRaises(table[i]))
        => (/\ index.state = "built"
            /\ \A i \in 1..Len(table) :
                  GoodRow(table[i])
                      => \/ \E j \in 1..Len(index.ipv4_records) :
                                index.ipv4_records[j] = table[i]
                         \/ \E j \in 1..Len(index.ipv6_records) :
                                index.ipv6_records[j] = table[i])

\* C13: on a built index lookup never raises, whatever the address string,
\* and a malformed address gives none.
C13_LookupTotal ==
    (index.state = "built" /\ lk.status # "none")
        => (/\ lk.status = "ok"
            /\ lk.ip \in BadAddrs => ~lk.found)

(***************************************************************************)
(* Properties of _build_tld_entry                                          *)
(***************************************************************************)
Built == entry # NoEntry
Label == LStripDots(ein.root_zone_entry.domain)
PageHasRdap == "rdap_server" \in ein.page_data.has
InBootstrap == Label \in DOMAIN ein.rdap_lookup
InSupplemental == Label \in DOMAIN ein.supplemental_rdap
HasRdapServer == "rdap_server" \in entry.has
HasRdapSource ==
    "annotations" \in entry.has /\ "rdap_source" \in entry.annotations.has

\* C14: rdap_server is the page-data URL when page data has one, otherwise
\* the bootstrap URL of the label, otherwise the supplemental URL of the
\* label, otherwise absent.
C14_RdapPrecedence ==
    Built =>
        /\ PageHasRdap
                => (HasRdapServer /\ entry.rdap_server = ein.page_data.rdap_server)
        /\ (~PageHasRdap /\ InBootstrap)
                => (HasRdapServer /\ entry.rdap_server = ein.rdap_lookup[Label])
        /\ (~PageHasRdap /\ ~InBootstrap /\ InSupplemental)
                => (/\ HasRdapServer
                    /\ entry.rdap_server = ein.supplemental_rdap[Label].rdap_server)
        /\ (~PageHasRdap /\ ~InBootstrap /\ ~InSupplemental) => ~HasRdapServer

\* all three sources have a URL for the label and the page's is taken
C14_Witness ==
    /\ Built /\ PageHasRdap /\ InBootstrap /\ InSupplemental
    /\ HasRdapServer /\ entry.rdap_server = PageUrl
    /\ PageUrl # BootstrapUrl /\ PageUrl # SupplementalUrl

\* C15: rdap_source is present if and only if rdap_server is present.
C15_SourceIffServer == Built => (HasRdapSource <=> HasRdapServer)

\* a record with neither field: no source knows the label
C15_Witness ==
    /\ Built /\ ~PageHasRdap /\ ~InBootstrap /\ ~InSupplemental
    /\ ein.rdap_lookup # NoMap /\ DOMAIN ein.supplemental_rdap # {}
    /\ ~HasRdapSource /\ ~HasRdapServer

\* C16: the tag tells the three sources apart: a page-data URL never carries
\* the tag of the bootstrap map, a bootstrap URL carries "bootstrap", a
\* supplemental URL carries "supplemental".
C16_DistinctProvenance ==
    Built =>
        /\ PageHasRdap
                => (/\ HasRdapSource
                    /\ entry.annotations.rdap_source \notin {"bootstrap", "supplemental"})
        /\ (~PageHasRdap /\ InBootstrap)
                => (HasRdapSource /\ entry.annotations.rdap_source = "bootstrap")
        /\ (~PageHasRdap /\ ~InBootstrap /\ InSupplemental)
                => (HasRdapSource /\ entry.annotations.rdap_source = "supplemental")

Manager == ein.root_zone_entry.manager
PageOrgKeys ==
    IF "orgs" \in ein.page_data.has THEN ein.page_data.orgs.has \cap {"admin", "tech"}
    ELSE {}

\* C17: delegated is true exactly when the manager is not "Not assigned";
\* orgs.tld_manager is present exactly when delegated; admin and tech are
\* those of the page data, with or without a manager.
C17_DelegatedAndOrgs ==
    Built =>
        /\ entry.delegated <=> (Manager # "Not assigned")
        /\ ("tld_manager" \in entry.orgs.has) <=> entry.delegated
        /\ entry.delegated => entry.orgs.tld_manager = Manager
        /\ entry.orgs.has \ {"tld_manager"} = PageOrgKeys
        /\ "admin" \in PageOrgKeys => entry.orgs.admin = ein.page_data.orgs.admin
        /\ "tech" \in PageOrgKeys => entry.orgs.tech = ein.page_data.orgs.tech
        /\ ("orgs" \in entry.has) <=> (entry.orgs.has # {})

\* admin and tech without a manager
C17_Witness ==
    /\ Built /\ Manager = "Not assigned" /\ ~entry.delegated
    /\ "orgs" \in entry.has
    /\ entry.orgs.has = {"admin", "tech"}
    /\ entry.orgs.admin = "Admin Org"

HasCountryName ==
    "annotations" \in entry.has /\ "country_name_iso" \in entry.annotations.has

\* C18: a record of type gtld never has a country name; a country name that
\* is set comes from the override table when the code is in it.
C18_GtldNoCountryName ==
    Built =>
        /\ entry.type = "gtld" => ~HasCountryName
        /\ (HasCountryName /\ Lower(Label) \in DOMAIN CCTLD_OVERRIDES)
                => entry.annotations.country_name_iso = CCTLD_OVERRIDES[Lower(Label)]

\* C19: tld_script is present if and only if the label starts with "xn--"
\* and the script mapping has an entry for it.
C19_ScriptOnlyForIdn ==
    Built =>
        (("tld_script" \in entry.has)
            <=> (StartsWith(Label, ACE) /\ Label \in DOMAIN ein.idn_script_mapping))

IsRecognized(t) == t \in DOMAIN REGISTRY_AGREEMENT_TYPE_MAPPING
RawTypesOfLabel ==
    IF Label \in DOMAIN ein.registry_agreements
    THEN ein.registry_agreements[Label].agreement_types ELSE <<>>
RecognizedOfLabel == SelectSeq(RawTypesOfLabel, IsRecognized)
HasAgreementTypes ==
    "annotations" \in entry.has
        /\ "registry_agreement_types" \in entry.annotations.has

\* C20: registry_agreement_types is emitted exactly for a label of the
\* agreement map with a recognized raw type, and is then the normalized
\* recognized types in their order, never the empty list.
C20_AgreementTypes ==
    Built =>
        /\ HasAgreementTypes <=> (RecognizedOfLabel # <<>>)
        /\ HasAgreementTypes
                => (/\ entry.annotations.registry_agreement_types # <<>>
                    /\ entry.annotations.registry_agreement_types
                          = [i \in 1..Len(RecognizedOfLabel) |->
                                REGISTRY_AGREEMENT_TYPE_MAPPING[RecognizedOfLabel[i]]])

\* an unrecognized type between two recognized ones
C20_Witness ==
    /\ Built /\ HasAgreementTypes
    /\ RawTypesOfLabel = <<"Brand (Spec 13)", "Unknown Type", "Base">>
    /\ entry.annotations.registry_agreement_types = <<"brand", "base">>

(***************************************************************************)
(* Properties of build_tlds_json                                           *)
(***************************************************************************)
\* the run follows a completed run over the same sources
Rebuild ==
    /\ run.status # "none" /\ run.repeat
    /\ prevRun.status = "returned" /\ ~prevRun.error

\* C8: a second run over unchanged sources (no I/O failure) reports
\* changed = False and leaves tlds.json as the first run left it, whatever
\* the publication stamp of the second run.
C8_RebuildUnchanged ==
    (Rebuild /\ NoIOFailure(run))
        => (/\ run.status = "returned"
            /\ ~run.result.changed /\ ~run.result.error
            /\ file = run.pre)

\* C24: when write_json_if_changed returns status "error", build_tlds_json
\* returns (it does not raise) a result with total_tlds, output_file None,
\* changed False and an error entry, and the --build command exits with 1.
C24_PersistenceErrorReported ==
    run.wstatus = "error" =>
        /\ run.status = "returned"
        /\ run.result.total_tlds = Len(BuiltTlds[run.srcs])
        /\ ~run.result.output_file
        /\ ~run.result.changed
        /\ run.result.error
        /\ run.exit = 1

\* a failed rewrite of an existing file, after a run that succeeded
C24_Witness ==
    /\ run.wstatus = "error" /\ run.pre.exists /\ run.wr = "partial"
    /\ run.result.total_tlds > 0 /\ run.exit = 1
    /\ prevRun.status = "returned" /\ ~prevRun.error

\* the first run wrote the file, the second run has a newer stamp
C8_Witness ==
    /\ Rebuild /\ NoIOFailure(run)
    /\ prevRun.wr = "ok"
    /\ prevRun.publication < run.publication
    /\ ~run.result.changed
    /\ JsonLoad(file.text).map["publication"].n = prevRun.publication
    /\ Len(JsonLoad(file.text).map["tlds"].l) > 1

====
